---- MODULE Spec2Model ----
(***************************************************************************)
(* Model of the chunked parallel route-pair solver                         *)
(* (parallel_route_pairs.py: ParallelRoutePairCalculator, Route,           *)
(* solve_route) and of the chunk planner it calls.                         *)
(*                                                                         *)
(* One coordinating process runs solve_route_in_parallel; a pool of        *)
(* max_processes workers runs solve_route once per planned chunk.  The     *)
(* routing engine and the geoprocessing tools are opaque: a job's outcome  *)
(* (solve succeeded, solve failed, exception) and the rows it exports are  *)
(* nondeterministic choices.                                               *)
(***************************************************************************)
EXTENDS Integers, Sequences, FiniteSets, TLC

VARIABLES
    pc,             \* position of the coordinator in solve_route_in_parallel
    total_rows,     \* number of rows of the input origins
    max_routes,     \* max_routes: the chunk cap
    max_processes,  \* max_processes: the size of the worker pool
    origin_ranges,  \* self.origin_ranges: the chunk plan
    total_jobs,     \* self.total_jobs
    jobs,           \* the futures, one per chunk: state, job_result, exported rows
    consumed,       \* chunks whose future as_completed has yielded, in order
    completed_jobs, \* the local counter completed_jobs
    route_fcs,      \* self.route_fcs
    out_routes,     \* the combined output feature class self.out_routes
    job_folders,    \* job ids whose folder exists inside the scratch folder
    scratch_exists, \* whether self.scratch_folder exists
    error,          \* the exception that left solve_route_in_parallel, if any
    warnings,       \* LOGGER.warning events emitted by the coordinator
    rt_inputs,      \* self.rt_inputs: the inputs handed to every Route
    validations,    \* how many times _validate_route_settings has run
    submitted,      \* the chunks handed to executor.submit, in submission order
    cleanup_log,    \* per run of the clean-up step: was the scratch folder there
    rt,             \* one Route instance followed step by step through solve_route
    call            \* one call of a helpers.py function: its argument and outcome

vars == <<pc, total_rows, max_routes, max_processes, origin_ranges, total_jobs,
          jobs, consumed, completed_jobs, route_fcs, out_routes, job_folders,
          scratch_exists, error, warnings, rt_inputs, validations, submitted,
          cleanup_log, rt, call>>

\* ---------------------------------------------------------------- bounds

MaxRows == 3
MaxRoutes == 2
MaxProcesses == 2
NumJobIds == 3
MaxPlanRows == 208
MaxPlanChunk == 50
MaxCleanups == 2
MaxBadChunk == 2
MaxOrigins == 2
MaxLiveRows == 1
MaxUnitLen == 4
MaxMsgLen == 6
MaxUrlLen == 5

\* ------------------------------------------------------------ program constants

DELETE_INTERMEDIATE_OUTPUTS == TRUE

\* ---------------------------------------------------------------- helpers

Min(a, b) == IF a <= b THEN a ELSE b

Range(s) == {s[k] : k \in 1..Len(s)}

\* ---------------------------------------------------------------- chunk planner

\* The chunk that starts at row low, not clipped to the rows that exist.
NextChunkUnclipped(low, total_row_count, max_chunk_size) ==
    <<low, low + max_chunk_size - 1>>

\* The chunk that starts at row low, with one row more than the cap.
NextChunkTooLong(low, total_row_count, max_chunk_size) ==
    <<low, Min(low + max_chunk_size, total_row_count)>>

\* The chunk that starts at row low: at most max_chunk_size rows, none past
\* the last row.
NextChunk(low, total_row_count, max_chunk_size) ==
    <<low, Min(low + max_chunk_size - 1, total_row_count)>>

\* The chunks from row low on, each starting after the one before it.
RECURSIVE PlanFrom(_, _, _)
PlanFrom(low, total_row_count, max_chunk_size) ==
    IF low > total_row_count
    THEN <<>>
    ELSE LET chunk == NextChunk(low, total_row_count, max_chunk_size)
         IN <<chunk>> \o PlanFrom(chunk[2] + 1, total_row_count, max_chunk_size)

get_oid_ranges_for_input(total_row_count, max_chunk_size) ==
    PlanFrom(1, total_row_count, max_chunk_size)

\* ---------------------------------------------------------------- output locations

\* uuid.uuid4().hex is a fixed-length string of hexadecimal digits; the model
\* draws it from the one-digit strings over the first NumJobIds digits.
HexChar(d) == IF d < 10 THEN 48 + d ELSE 87 + d

JobIds == {<<HexChar(d)>> : d \in 0..(NumJobIds - 1)}

\* str(n) for n >= 0, as character codes.
RECURSIVE DecimalChars(_)
DecimalChars(n) ==
    IF n < 10 THEN <<48 + n>> ELSE DecimalChars(n \div 10) \o <<48 + (n % 10)>>

\* job_result["outputRoutes"] before the export: the empty string.
NoPath == [job |-> <<>>, lo |-> 0, hi |-> 0]

\* os.path.join(job_folder, "scratch.gdb", f"Routes_{chunk[0]}_{chunk[1]}")
OutputRoutes(job_id, chunk) == [job |-> job_id, lo |-> chunk[1], hi |-> chunk[2]]

\* The characters of an output location.  The scratch folder before the job id
\* and the text "scratch.gdb", "Routes_" after it are the same in every
\* location and, job ids having one length, stand at the same offsets: each
\* is kept as its path separator (92).
PathChars(p) ==
    IF p = NoPath
    THEN <<>>
    ELSE <<92>> \o p.job \o <<92>> \o DecimalChars(p.lo) \o <<95>> \o DecimalChars(p.hi)

\* Python's str.__lt__: lexicographic on code points, a proper prefix first.
RECURSIVE CharsLess(_, _)
CharsLess(a, b) ==
    IF b = <<>> THEN FALSE
    ELSE IF a = <<>> THEN TRUE
    ELSE IF Head(a) # Head(b) THEN Head(a) < Head(b)
    ELSE CharsLess(Tail(a), Tail(b))

PathLess(p, q) == CharsLess(PathChars(p), PathChars(q))

\* Insert p into the sorted sequence s, after the elements equal to it.
RECURSIVE InsertSorted(_, _)
InsertSorted(p, s) ==
    IF s = <<>> THEN <<p>>
    ELSE IF PathLess(p, Head(s)) THEN <<p>> \o s
    ELSE <<Head(s)>> \o InsertSorted(p, Tail(s))

\* The sequence as it is, in arrival order.
ArrivalOrder(s) == s

\* sorted(route_fcs): a stable ascending sort.
RECURSIVE sorted(_)
sorted(s) ==
    IF s = <<>> THEN <<>>
    ELSE InsertSorted(s[Len(s)], sorted(SubSeq(s, 1, Len(s) - 1)))

\* ---------------------------------------------------------------- job unit

NoError == [kind |-> "none", chunk |-> 0]

\* A future whose work item no worker has taken yet.
NoResult == [jobId |-> <<>>, solveSucceeded |-> FALSE, outputRoutes |-> NoPath]

\* raised_in names the call an exception left solve_route from, if one did;
\* inputs is the dictionary Route(**inputs) was constructed from, once it was.
PendingJob ==
    [st |-> "pending", raised |-> FALSE, raised_in |-> "none",
     job_result |-> NoResult, rows |-> <<>>,
     inputs |-> [origin_transfer_fields |-> <<>>, destination_transfer_fields |-> <<>>]]

\* Route.__init__: the result dictionary of a fresh job.
Route_init(job_id) ==
    [jobId |-> job_id, solveSucceeded |-> FALSE, outputRoutes |-> NoPath]

\* What the routing engine and the geoprocessing tools do to one job.
SolveOutcomes == {"no_stops", "solve_failed", "succeeded", "exception"}

\* Route._export_to_feature_class: the job result after the export.
export_to_feature_class(job_result, chunk) ==
    [job_result EXCEPT !.outputRoutes = OutputRoutes(job_result.jobId, chunk)]

\* Route.solve marks the result as succeeded and returns it without the export.
Route_solve_without_export(job_result, chunk, outcome) ==
    IF outcome = "no_stops" THEN job_result
    ELSE IF outcome = "solve_failed" THEN job_result
    ELSE [job_result EXCEPT !.solveSucceeded = TRUE]

\* Route.solve: the job result when solve returns (outcome is not "exception").
Route_solve(job_result, chunk, outcome) ==
    IF outcome = "no_stops" THEN job_result
    ELSE IF outcome = "solve_failed" THEN job_result
    ELSE export_to_feature_class([job_result EXCEPT !.solveSucceeded = TRUE], chunk)

\* The elements of a set of integers in ascending order.
RECURSIVE Ascending(_)
Ascending(S) ==
    IF S = {} THEN <<>>
    ELSE LET m == CHOOSE x \in S : \A y \in S : x <= y
         IN <<m>> \o Ascending(S \ {m})

\* The rows a successful solve of a chunk can export: one route per origin of
\* the chunk that the engine routed, at least one.
ExportedRows(chunk) ==
    {Ascending(S) : S \in (SUBSET (chunk[1]..chunk[2])) \ {{}}}

\* ---------------------------------------------------------------- transfer fields

int_types == {"Integer", "SmallInteger"}

numerical_types == {"Double", "Single"} \cup int_types

\* The Stops fields the tool lets through, with the types each may have.
rt_stops_input_fields ==
    [n \in {"Name", "AdditionalTime", "AdditionalDistance", "AdditionalCost",
            "TimeWindowStart", "TimeWindowEnd", "CurbApproach", "Bearing",
            "BearingTol", "NavLatency", "SourceID", "SourceOID", "PosAlong",
            "SideOfEdge"} |->
        IF n = "Name" THEN {"String"}
        ELSE IF n \in {"TimeWindowStart", "TimeWindowEnd"} THEN {"Date"}
        ELSE IF n \in {"CurbApproach", "SourceID", "SourceOID", "SideOfEdge"} THEN int_types
        ELSE numerical_types]

\* arcpy.ListFields(self.origins): the fields of the input origins.
OriginFields ==
    <<[name |-> "OBJECTID", type |-> "OID"],
      [name |-> "Name", type |-> "String"],
      [name |-> "CurbApproach", type |-> "String"],
      [name |-> "Bearing", type |-> "Double"]>>

\* arcpy.ListFields(self.destinations): the fields of the input destinations.
DestinationFields ==
    <<[name |-> "OBJECTID", type |-> "OID"],
      [name |-> "Name", type |-> "Integer"],
      [name |-> "CurbApproach", type |-> "SmallInteger"],
      [name |-> "Sequence", type |-> "Integer"]>>

\* The names of the fields whose name and type the Stops input supports.
RECURSIVE TransferFields(_)
TransferFields(fields) ==
    IF fields = <<>> THEN <<>>
    ELSE LET f == Head(fields)
         IN (IF f.name \in DOMAIN rt_stops_input_fields
                  /\ f.type \in rt_stops_input_fields[f.name]
             THEN <<f.name>> ELSE <<>>) \o TransferFields(Tail(fields))

\* self.rt_inputs as __init__ leaves it: the transfer fields are populated
\* later; no other key is assigned again after __init__.
InitialInputs == [origin_transfer_fields |-> <<>>, destination_transfer_fields |-> <<>>]

\* ---------------------------------------------------------------- file system

\* shutil.rmtree without ignore_errors: a missing folder or a failed removal
\* raises.
rmtree_reports_errors(exists, removed) ==
    [exists |-> exists /\ ~removed, raised |-> ~exists \/ ~removed]

\* shutil.rmtree(folder, ignore_errors=True): the folder is removed, or the
\* failure (a missing folder included) is ignored; nothing is raised.
rmtree(exists, removed) ==
    [exists |-> exists /\ ~removed, raised |-> FALSE]

\* ---------------------------------------------------------------- state

\* No Route instance is followed step by step.
NoRoute == [step |-> "none"]

\* No helpers.py function is being called.
NoCall == [fn |-> "none"]

Chunks == 1..total_jobs

Pending == {i \in Chunks : jobs[i].st = "pending"}
Running == {i \in Chunks : jobs[i].st = "running"}
Finished == {i \in Chunks : jobs[i].st = "finished"}

NoOutput == [exists |-> FALSE, template |-> NoPath, rows |-> <<>>]

\* The state after ParallelRoutePairCalculator.__init__.
Init ==
    /\ pc = "start"
    /\ total_rows \in 0..MaxRows
    /\ max_routes \in 1..MaxRoutes
    /\ max_processes \in 1..MaxProcesses
    /\ origin_ranges = get_oid_ranges_for_input(total_rows, max_routes)
    /\ total_jobs = Len(origin_ranges)
    /\ jobs = [i \in 1..total_jobs |-> PendingJob]
    /\ consumed = <<>>
    /\ completed_jobs = 0
    /\ route_fcs = <<>>
    /\ out_routes = NoOutput
    /\ job_folders = {}
    /\ scratch_exists = TRUE
    /\ error = NoError
    /\ warnings = {}
    /\ rt_inputs = InitialInputs
    /\ validations = 0
    /\ submitted = <<>>
    /\ cleanup_log = <<>>
    /\ rt = NoRoute
    /\ call = NoCall

\* ---------------------------------------------------------------- pre-flight

\* _validate_route_settings: a throwaway Route is constructed and its solver
\* initialized; the finally block removes its folder when rt was assigned.
\* shutil.rmtree(ignore_errors=True) may leave the folder in place.
validate_route_settings ==
    /\ pc = "start"
    /\ \E id \in JobIds, outcome \in {"mkdir_fails", "ctor_fails", "init_fails", "ok"},
          removed \in BOOLEAN :
          LET made == outcome # "mkdir_fails"
              rt_assigned == outcome \in {"init_fails", "ok"}
          IN /\ (id \in job_folders \/ ~scratch_exists) => outcome = "mkdir_fails"
             /\ job_folders' = IF made /\ (rt_assigned => rmtree(TRUE, removed).exists)
                               THEN job_folders \cup {id}
                               ELSE job_folders
             /\ IF outcome = "ok"
                THEN pc' = "validated" /\ error' = error
                ELSE pc' = "raised" /\ error' = [kind |-> "validation", chunk |-> 0]
    /\ validations' = validations + 1
    /\ UNCHANGED <<total_rows, max_routes, max_processes, origin_ranges, total_jobs,
                   jobs, consumed, completed_jobs, route_fcs, out_routes,
                   scratch_exists, warnings, rt_inputs, submitted, cleanup_log, rt, call>>

\* _populate_input_data_transfer_fields: the supported fields of the origins
\* and of the destinations are stored in rt_inputs.
populate_input_data_transfer_fields ==
    /\ pc = "validated"
    /\ rt_inputs' = [rt_inputs EXCEPT
                        !.origin_transfer_fields = TransferFields(OriginFields),
                        !.destination_transfer_fields = TransferFields(DestinationFields)]
    /\ pc' = "populated"
    /\ UNCHANGED <<total_rows, max_routes, max_processes, origin_ranges, total_jobs,
                   jobs, consumed, completed_jobs, route_fcs, out_routes, job_folders,
                   scratch_exists, error, warnings, validations, submitted,
                   cleanup_log, rt, call>>

\* ---------------------------------------------------------------- dispatch

\* The submission that does not wait for the pre-flight validation.
SubmitJobsUnvalidated ==
    /\ pc \in {"start", "populated"}
    /\ pc' = "draining"
    /\ completed_jobs' = 0
    /\ submitted' = origin_ranges
    /\ jobs' = [i \in 1..Len(origin_ranges) |-> PendingJob]
    /\ UNCHANGED <<total_rows, max_routes, max_processes, origin_ranges, total_jobs,
                   consumed, route_fcs, out_routes, job_folders, scratch_exists,
                   error, warnings, rt_inputs, validations, cleanup_log, rt, call>>

\* The submission that walks origin_ranges from its last chunk to its first.
SubmitJobsReversed ==
    /\ pc = "populated"
    /\ pc' = "draining"
    /\ completed_jobs' = 0
    /\ submitted' = [k \in 1..Len(origin_ranges) |->
                        origin_ranges[Len(origin_ranges) + 1 - k]]
    /\ jobs' = [i \in 1..Len(origin_ranges) |-> PendingJob]
    /\ UNCHANGED <<total_rows, max_routes, max_processes, origin_ranges, total_jobs,
                   consumed, route_fcs, out_routes, job_folders, scratch_exists,
                   error, warnings, rt_inputs, validations, cleanup_log, rt, call>>

\* executor.submit for every chunk of origin_ranges, in order: every future
\* is pending and the coordinator enters the as_completed loop.
SubmitJobs ==
    /\ pc = "populated"
    /\ pc' = "draining"
    /\ completed_jobs' = 0
    /\ submitted' = origin_ranges
    /\ jobs' = [i \in 1..Len(origin_ranges) |-> PendingJob]
    /\ UNCHANGED <<total_rows, max_routes, max_processes, origin_ranges, total_jobs,
                   consumed, route_fcs, out_routes, job_folders, scratch_exists,
                   error, warnings, rt_inputs, validations, cleanup_log, rt, call>>

\* The start of a job on a pool that launches a process for every work item,
\* whatever max_workers says.
JobStartUnbounded(i) ==
    /\ pc \in {"draining", "aborting"}
    /\ i \in Pending
    /\ \A k \in Pending : i <= k
    /\ \E id \in JobIds, mkdir_ok \in BOOLEAN :
          /\ (id \in job_folders \/ ~scratch_exists) => ~mkdir_ok
          /\ IF mkdir_ok
             THEN /\ job_folders' = job_folders \cup {id}
                  /\ jobs' = [jobs EXCEPT ![i] = [st |-> "running", raised |-> FALSE,
                                                  raised_in |-> "none",
                                                  job_result |-> Route_init(id),
                                                  rows |-> <<>>,
                                                  inputs |-> rt_inputs]]
             ELSE /\ job_folders' = job_folders
                  /\ jobs' = [jobs EXCEPT ![i] = [st |-> "finished", raised |-> TRUE,
                                                  raised_in |-> "Route.__init__",
                                                  job_result |-> NoResult,
                                                  rows |-> <<>>,
                                                  inputs |-> rt_inputs]]
    /\ UNCHANGED <<pc, total_rows, max_routes, max_processes, origin_ranges, total_jobs,
                   consumed, completed_jobs, route_fcs, out_routes, scratch_exists,
                   error, warnings,
                   rt_inputs, validations, submitted, cleanup_log, rt, call>>

\* os.mkdir accepts a folder that is there already.
JobStartReusesFolder(i) ==
    /\ pc \in {"draining", "aborting"}
    /\ i \in Pending
    /\ \A k \in Pending : i <= k
    /\ Cardinality(Running) < max_processes
    /\ \E id \in JobIds, mkdir_ok \in BOOLEAN :
          /\ ~scratch_exists => ~mkdir_ok
          /\ IF mkdir_ok
             THEN /\ job_folders' = job_folders \cup {id}
                  /\ jobs' = [jobs EXCEPT ![i] = [st |-> "running", raised |-> FALSE,
                                                  raised_in |-> "none",
                                                  job_result |-> Route_init(id),
                                                  rows |-> <<>>,
                                                  inputs |-> rt_inputs]]
             ELSE /\ job_folders' = job_folders
                  /\ jobs' = [jobs EXCEPT ![i] = [st |-> "finished", raised |-> TRUE,
                                                  raised_in |-> "Route.__init__",
                                                  job_result |-> NoResult,
                                                  rows |-> <<>>,
                                                  inputs |-> rt_inputs]]
    /\ UNCHANGED <<pc, total_rows, max_routes, max_processes, origin_ranges, total_jobs,
                   consumed, completed_jobs, route_fcs, out_routes, scratch_exists,
                   error, warnings,
                   rt_inputs, validations, submitted, cleanup_log, rt, call>>

\* A free worker takes the oldest pending work item and runs Route.__init__
\* inside solve_route: a job id is drawn and its folder made.  os.mkdir raises
\* when the folder exists already or cannot be made.
JobStart(i) ==
    /\ pc \in {"draining", "aborting"}
    /\ i \in Pending
    /\ \A k \in Pending : i <= k
    /\ Cardinality(Running) < max_processes
    /\ \E id \in JobIds, mkdir_ok \in BOOLEAN :
          /\ (id \in job_folders \/ ~scratch_exists) => ~mkdir_ok
          /\ IF mkdir_ok
             THEN /\ job_folders' = job_folders \cup {id}
                  /\ jobs' = [jobs EXCEPT ![i] = [st |-> "running", raised |-> FALSE,
                                                  raised_in |-> "none",
                                                  job_result |-> Route_init(id),
                                                  rows |-> <<>>,
                                                  inputs |-> rt_inputs]]
             ELSE /\ job_folders' = job_folders
                  /\ jobs' = [jobs EXCEPT ![i] = [st |-> "finished", raised |-> TRUE,
                                                  raised_in |-> "Route.__init__",
                                                  job_result |-> NoResult,
                                                  rows |-> <<>>,
                                                  inputs |-> rt_inputs]]
    /\ UNCHANGED <<pc, total_rows, max_routes, max_processes, origin_ranges, total_jobs,
                   consumed, completed_jobs, route_fcs, out_routes, scratch_exists,
                   error, warnings,
                   rt_inputs, validations, submitted, cleanup_log, rt, call>>

\* rt.solve(chunk) ends in the worker: solve_route returns rt.job_result, or
\* an exception leaves solve_route and is stored in the future in place of a
\* result.
JobFinish(i) ==
    /\ pc \in {"draining", "aborting"}
    /\ i \in Running
    /\ \E outcome \in SolveOutcomes :
          IF outcome = "exception"
          THEN jobs' = [jobs EXCEPT ![i].st = "finished", ![i].raised = TRUE,
                                    ![i].raised_in = "Route.solve",
                                    ![i].job_result = NoResult]
          ELSE \E rows \in (IF outcome = "succeeded"
                            THEN ExportedRows(submitted[i]) ELSE {<<>>}) :
                  jobs' = [jobs EXCEPT ![i].st = "finished",
                                       ![i].job_result =
                                           Route_solve(@, submitted[i], outcome),
                                       ![i].rows = rows]
    /\ UNCHANGED <<pc, total_rows, max_routes, max_processes, origin_ranges, total_jobs,
                   consumed, completed_jobs, route_fcs, out_routes, job_folders,
                   scratch_exists, error, warnings,
                   rt_inputs, validations, submitted, cleanup_log, rt, call>>

\* The loop pass with a failed solve treated like an exception.
DrainCompletionFailedIsFatal(i) ==
    /\ pc = "draining"
    /\ i \in Finished
    /\ i \notin Range(consumed)
    /\ consumed' = Append(consumed, i)
    /\ completed_jobs' = completed_jobs + 1
    /\ IF jobs[i].raised \/ ~jobs[i].job_result.solveSucceeded
       THEN /\ pc' = "aborting"
            /\ error' = [kind |-> "transport", chunk |-> i]
            /\ route_fcs' = route_fcs
       ELSE /\ pc' = pc
            /\ error' = error
            /\ route_fcs' = Append(route_fcs, jobs[i].job_result.outputRoutes)
    /\ UNCHANGED <<total_rows, max_routes, max_processes, origin_ranges, total_jobs,
                   jobs, out_routes, job_folders, scratch_exists, warnings,
                   rt_inputs, validations, submitted, cleanup_log, rt, call>>

\* The loop pass with the exception of future.result() logged and dropped.
DrainCompletionSwallowsError(i) ==
    /\ pc = "draining"
    /\ i \in Finished
    /\ i \notin Range(consumed)
    /\ consumed' = Append(consumed, i)
    /\ completed_jobs' = completed_jobs + 1
    /\ pc' = pc
    /\ error' = error
    /\ route_fcs' = IF ~jobs[i].raised /\ jobs[i].job_result.solveSucceeded
                    THEN Append(route_fcs, jobs[i].job_result.outputRoutes)
                    ELSE route_fcs
    /\ UNCHANGED <<total_rows, max_routes, max_processes, origin_ranges, total_jobs,
                   jobs, out_routes, job_folders, scratch_exists, warnings,
                   rt_inputs, validations, submitted, cleanup_log, rt, call>>

\* The loop pass with the output location stored whatever solveSucceeded says.
DrainCompletionAppendsEveryResult(i) ==
    /\ pc = "draining"
    /\ i \in Finished
    /\ i \notin Range(consumed)
    /\ consumed' = Append(consumed, i)
    /\ completed_jobs' = completed_jobs + 1
    /\ IF jobs[i].raised
       THEN /\ pc' = "aborting"
            /\ error' = [kind |-> "transport", chunk |-> i]
            /\ route_fcs' = route_fcs
       ELSE /\ pc' = pc
            /\ error' = error
            /\ route_fcs' = Append(route_fcs, jobs[i].job_result.outputRoutes)
    /\ UNCHANGED <<total_rows, max_routes, max_processes, origin_ranges, total_jobs,
                   jobs, out_routes, job_folders, scratch_exists, warnings,
                   rt_inputs, validations, submitted, cleanup_log, rt, call>>

\* The loop pass that writes the rows of a successful job to the combined
\* output at once, without waiting for the other jobs.
DrainCompletionMergesIncrementally(i) ==
    /\ pc = "draining"
    /\ i \in Finished
    /\ i \notin Range(consumed)
    /\ consumed' = Append(consumed, i)
    /\ completed_jobs' = completed_jobs + 1
    /\ IF jobs[i].raised
       THEN /\ pc' = "aborting"
            /\ error' = [kind |-> "transport", chunk |-> i]
            /\ route_fcs' = route_fcs
            /\ out_routes' = out_routes
       ELSE /\ pc' = pc
            /\ error' = error
            /\ route_fcs' = IF jobs[i].job_result.solveSucceeded
                            THEN Append(route_fcs, jobs[i].job_result.outputRoutes)
                            ELSE route_fcs
            /\ out_routes' = IF jobs[i].job_result.solveSucceeded
                             THEN [exists |-> TRUE,
                                   template |-> IF out_routes.exists
                                                THEN out_routes.template
                                                ELSE jobs[i].job_result.outputRoutes,
                                   rows |-> out_routes.rows \o jobs[i].rows]
                             ELSE out_routes
    /\ UNCHANGED <<total_rows, max_routes, max_processes, origin_ranges, total_jobs,
                   jobs, job_folders, scratch_exists, warnings,
                   rt_inputs, validations, submitted, cleanup_log, rt, call>>

\* The loop pass that takes a job whose folder could not be made for a failed
\* solve and goes on.
DrainCompletionAbsorbsInitFailure(i) ==
    /\ pc = "draining"
    /\ i \in Finished
    /\ i \notin Range(consumed)
    /\ consumed' = Append(consumed, i)
    /\ completed_jobs' = completed_jobs + 1
    /\ IF jobs[i].raised /\ jobs[i].raised_in # "Route.__init__"
       THEN /\ pc' = "aborting"
            /\ error' = [kind |-> "transport", chunk |-> i]
            /\ route_fcs' = route_fcs
       ELSE /\ pc' = pc
            /\ error' = error
            /\ route_fcs' = IF jobs[i].job_result.solveSucceeded
                            THEN Append(route_fcs, jobs[i].job_result.outputRoutes)
                            ELSE route_fcs
    /\ UNCHANGED <<total_rows, max_routes, max_processes, origin_ranges, total_jobs,
                   jobs, out_routes, job_folders, scratch_exists, warnings,
                   rt_inputs, validations, submitted, cleanup_log, rt, call>>

\* One pass of the as_completed loop for the finished future of chunk i.
\* as_completed yields a future it has yielded before.
DrainCompletionYieldsAgain(i) ==
    /\ pc = "draining"
    /\ i \in Finished
    /\ consumed' = Append(consumed, i)
    /\ completed_jobs' = completed_jobs + 1
    /\ IF jobs[i].raised
       THEN /\ pc' = "aborting"
            /\ error' = [kind |-> "transport", chunk |-> i]
            /\ route_fcs' = route_fcs
       ELSE /\ pc' = pc
            /\ error' = error
            /\ route_fcs' = IF jobs[i].job_result.solveSucceeded
                            THEN Append(route_fcs, jobs[i].job_result.outputRoutes)
                            ELSE route_fcs
    /\ UNCHANGED <<total_rows, max_routes, max_processes, origin_ranges, total_jobs,
                   jobs, out_routes, job_folders, scratch_exists, warnings,
                   rt_inputs, validations, submitted, cleanup_log, rt, call>>

\* Only a completion whose result could be retrieved is counted.
DrainCompletionCountsResultsOnly(i) ==
    /\ pc = "draining"
    /\ i \in Finished
    /\ i \notin Range(consumed)
    /\ consumed' = Append(consumed, i)
    /\ completed_jobs' = IF jobs[i].raised THEN completed_jobs ELSE completed_jobs + 1
    /\ IF jobs[i].raised
       THEN \* future.result() raises: logged and re-raised
            /\ pc' = "aborting"
            /\ error' = [kind |-> "transport", chunk |-> i]
            /\ route_fcs' = route_fcs
       ELSE /\ pc' = pc
            /\ error' = error
            /\ route_fcs' = IF jobs[i].job_result.solveSucceeded
                            THEN Append(route_fcs, jobs[i].job_result.outputRoutes)
                            ELSE route_fcs
    /\ UNCHANGED <<total_rows, max_routes, max_processes, origin_ranges, total_jobs,
                   jobs, out_routes, job_folders, scratch_exists, warnings,
                   rt_inputs, validations, submitted, cleanup_log, rt, call>>

\* The loop goes on collecting after a completion that raised.
DrainCompletionGoesOnAfterError(i) ==
    /\ pc \in {"draining", "aborting"}
    /\ i \in Finished
    /\ i \notin Range(consumed)
    /\ consumed' = Append(consumed, i)
    /\ completed_jobs' = completed_jobs + 1
    /\ IF jobs[i].raised
       THEN \* future.result() raises: logged and re-raised
            /\ pc' = "aborting"
            /\ error' = [kind |-> "transport", chunk |-> i]
            /\ route_fcs' = route_fcs
       ELSE /\ pc' = pc
            /\ error' = error
            /\ route_fcs' = IF jobs[i].job_result.solveSucceeded
                            THEN Append(route_fcs, jobs[i].job_result.outputRoutes)
                            ELSE route_fcs
    /\ UNCHANGED <<total_rows, max_routes, max_processes, origin_ranges, total_jobs,
                   jobs, out_routes, job_folders, scratch_exists, warnings,
                   rt_inputs, validations, submitted, cleanup_log, rt, call>>

\* The loop empties the transfer-field lists of rt_inputs as results come in.
DrainCompletionClearsTransferFields(i) ==
    /\ pc = "draining"
    /\ i \in Finished
    /\ i \notin Range(consumed)
    /\ consumed' = Append(consumed, i)
    /\ completed_jobs' = completed_jobs + 1
    /\ IF jobs[i].raised
       THEN \* future.result() raises: logged and re-raised
            /\ pc' = "aborting"
            /\ error' = [kind |-> "transport", chunk |-> i]
            /\ route_fcs' = route_fcs
       ELSE /\ pc' = pc
            /\ error' = error
            /\ route_fcs' = IF jobs[i].job_result.solveSucceeded
                            THEN Append(route_fcs, jobs[i].job_result.outputRoutes)
                            ELSE route_fcs
    /\ UNCHANGED <<total_rows, max_routes, max_processes, origin_ranges, total_jobs,
                   jobs, out_routes, job_folders, scratch_exists, warnings,
                   validations, submitted, cleanup_log, rt, call>>
    /\ rt_inputs' = InitialInputs

DrainCompletion(i) ==
    /\ pc = "draining"
    /\ i \in Finished
    /\ i \notin Range(consumed)
    /\ consumed' = Append(consumed, i)
    /\ completed_jobs' = completed_jobs + 1
    /\ IF jobs[i].raised
       THEN \* future.result() raises: logged and re-raised
            /\ pc' = "aborting"
            /\ error' = [kind |-> "transport", chunk |-> i]
            /\ route_fcs' = route_fcs
       ELSE /\ pc' = pc
            /\ error' = error
            /\ route_fcs' = IF jobs[i].job_result.solveSucceeded
                            THEN Append(route_fcs, jobs[i].job_result.outputRoutes)
                            ELSE route_fcs
    /\ UNCHANGED <<total_rows, max_routes, max_processes, origin_ranges, total_jobs,
                   jobs, out_routes, job_folders, scratch_exists, warnings,
                   rt_inputs, validations, submitted, cleanup_log, rt, call>>

\* ---------------------------------------------------------------- merge

\* The rows of the feature class at an output location.
RowsOf(fc) ==
    LET i == CHOOSE k \in Chunks : jobs[k].job_result.outputRoutes = fc
    IN jobs[i].rows

\* The rows the InsertCursor loop writes: those of each feature class in turn.
RECURSIVE InsertedRows(_)
InsertedRows(fcs) ==
    IF fcs = <<>> THEN <<>>
    ELSE RowsOf(Head(fcs)) \o InsertedRows(Tail(fcs))

\* The merge without the rows of the template feature class.
post_process_route_fcs_skips_template(fcs) ==
    [exists |-> TRUE, template |-> fcs[1], rows |-> InsertedRows(Tail(fcs))]

\* _post_process_route_fcs: the combined output made from the template
\* route_fcs[0] and filled from every feature class of route_fcs.
post_process_route_fcs(fcs) ==
    [exists |-> TRUE, template |-> fcs[1], rows |-> InsertedRows(fcs)]

\* The abort on which whatever was collected so far is merged.
AbortBatchMergesCollected ==
    /\ pc = "aborting"
    /\ Finished = Chunks
    /\ pc' = "raised"
    /\ out_routes' = IF route_fcs # <<>>
                     THEN post_process_route_fcs(sorted(route_fcs))
                     ELSE out_routes
    /\ UNCHANGED <<total_rows, max_routes, max_processes, origin_ranges, total_jobs,
                   jobs, consumed, completed_jobs, route_fcs, job_folders,
                   scratch_exists, error, warnings,
                   rt_inputs, validations, submitted, cleanup_log, rt, call>>

\* The abort that removes the scratch folder on its way out.
AbortBatchCleansUp ==
    /\ pc = "aborting"
    /\ Finished = Chunks
    /\ pc' = "raised"
    /\ \E removed \in BOOLEAN :
          LET r == rmtree(scratch_exists, removed)
          IN /\ scratch_exists' = r.exists
             /\ job_folders' = IF r.exists THEN job_folders ELSE {}
             /\ cleanup_log' = Append(cleanup_log, scratch_exists)
    /\ UNCHANGED <<total_rows, max_routes, max_processes, origin_ranges, total_jobs,
                   jobs, consumed, completed_jobs, route_fcs, out_routes,
                   error, warnings, rt_inputs, validations, submitted, rt, call>>

\* The exception leaves the with block: ProcessPoolExecutor.__exit__ waits
\* for every submitted work item, then the exception reaches the caller.
AbortBatch ==
    /\ pc = "aborting"
    /\ Finished = Chunks
    /\ pc' = "raised"
    /\ UNCHANGED <<total_rows, max_routes, max_processes, origin_ranges, total_jobs,
                   jobs, consumed, completed_jobs, route_fcs, out_routes, job_folders,
                   scratch_exists, error, warnings,
                   rt_inputs, validations, submitted, cleanup_log, rt, call>>

\* ---------------------------------------------------------------- post-processing

\* The end of the loop that empties the transfer fields of rt_inputs once the
\* jobs are over.
PostProcessResetsInputs ==
    /\ pc = "draining"
    /\ Len(consumed) = total_jobs
    /\ IF route_fcs # <<>>
       THEN /\ route_fcs' = sorted(route_fcs)
            /\ out_routes' = post_process_route_fcs(sorted(route_fcs))
            /\ warnings' = warnings
       ELSE /\ route_fcs' = route_fcs
            /\ out_routes' = out_routes
            /\ warnings' = warnings \cup {"All Route solves failed"}
    /\ rt_inputs' = InitialInputs
    /\ pc' = "cleanup"
    /\ UNCHANGED <<total_rows, max_routes, max_processes, origin_ranges, total_jobs,
                   jobs, consumed, completed_jobs, job_folders, scratch_exists, error,
                   validations, submitted, cleanup_log, rt, call>>

\* The end of the loop with the merge run on an empty route_fcs too.
PostProcessAlwaysMerges ==
    /\ pc = "draining"
    /\ Len(consumed) = total_jobs
    /\ route_fcs' = sorted(route_fcs)
    /\ out_routes' = [exists |-> TRUE,
                      template |-> IF route_fcs # <<>> THEN sorted(route_fcs)[1] ELSE NoPath,
                      rows |-> InsertedRows(sorted(route_fcs))]
    /\ warnings' = warnings
    /\ pc' = "cleanup"
    /\ UNCHANGED <<total_rows, max_routes, max_processes, origin_ranges, total_jobs,
                   jobs, consumed, completed_jobs, job_folders, scratch_exists, error,
                   rt_inputs, validations, submitted, cleanup_log, rt, call>>

\* The as_completed loop has ended and the pool is shut down: post-process.
\* The dispatcher stops waiting for the jobs that have not completed.
PostProcessAfterTimeout ==
    /\ pc = "draining"
    /\ IF route_fcs # <<>>
       THEN /\ route_fcs' = sorted(route_fcs)
            /\ out_routes' = post_process_route_fcs(sorted(route_fcs))
            /\ warnings' = warnings
       ELSE /\ route_fcs' = route_fcs
            /\ out_routes' = out_routes
            /\ warnings' = warnings \cup {"All Route solves failed"}
    /\ pc' = "cleanup"
    /\ UNCHANGED <<total_rows, max_routes, max_processes, origin_ranges, total_jobs,
                   jobs, consumed, completed_jobs, job_folders, scratch_exists, error,
                   rt_inputs, validations, submitted, cleanup_log, rt, call>>

\* A batch without any output ends with an exception.
PostProcessNoOutputRaises ==
    /\ pc = "draining"
    /\ Len(consumed) = total_jobs
    /\ IF route_fcs # <<>>
       THEN /\ route_fcs' = sorted(route_fcs)
            /\ out_routes' = post_process_route_fcs(sorted(route_fcs))
            /\ warnings' = warnings
       ELSE /\ route_fcs' = route_fcs
            /\ out_routes' = out_routes
            /\ warnings' = warnings \cup {"All Route solves failed"}
    /\ pc' = IF route_fcs # <<>> THEN "cleanup" ELSE "raised"
    /\ UNCHANGED <<total_rows, max_routes, max_processes, origin_ranges, total_jobs,
                   jobs, consumed, completed_jobs, job_folders, scratch_exists, error,
                   rt_inputs, validations, submitted, cleanup_log, rt, call>>

PostProcess ==
    /\ pc = "draining"
    /\ Len(consumed) = total_jobs
    /\ IF route_fcs # <<>>
       THEN /\ route_fcs' = sorted(route_fcs)
            /\ out_routes' = post_process_route_fcs(sorted(route_fcs))
            /\ warnings' = warnings
       ELSE /\ route_fcs' = route_fcs
            /\ out_routes' = out_routes
            /\ warnings' = warnings \cup {"All Route solves failed"}
    /\ pc' = "cleanup"
    /\ UNCHANGED <<total_rows, max_routes, max_processes, origin_ranges, total_jobs,
                   jobs, consumed, completed_jobs, job_folders, scratch_exists, error,
                   rt_inputs, validations, submitted, cleanup_log, rt, call>>

\* ---------------------------------------------------------------- cleanup

\* shutil.rmtree(self.scratch_folder, ignore_errors=True): the folder and
\* everything in it are removed, or a failure is ignored and they stay.
\* A failure of rmtree is ignored; an exception it raised all the same would
\* be logged as a warning.
DeleteIntermediateOutputs ==
    IF DELETE_INTERMEDIATE_OUTPUTS
    THEN \E removed \in BOOLEAN :
            LET r == rmtree(scratch_exists, removed)
            IN /\ scratch_exists' = r.exists
               /\ job_folders' = IF r.exists THEN job_folders ELSE {}
               /\ warnings' = IF r.raised
                               THEN warnings \cup {"Unable to delete intermediate Route output folder"}
                               ELSE warnings
               /\ cleanup_log' = Append(cleanup_log, scratch_exists)
    ELSE UNCHANGED <<scratch_exists, job_folders, warnings, cleanup_log>>

\* The clean-up whose failed removal is raised to the caller.
CleanUpFailureIsFatal ==
    /\ pc = "cleanup"
    /\ \E removed \in BOOLEAN :
          LET r == rmtree(scratch_exists, removed)
          IN /\ scratch_exists' = r.exists
             /\ job_folders' = IF r.exists THEN job_folders ELSE {}
             /\ cleanup_log' = Append(cleanup_log, scratch_exists)
             /\ IF r.exists
                THEN pc' = "raised" /\ error' = [kind |-> "cleanup", chunk |-> 0]
                ELSE pc' = "done" /\ error' = error
    /\ UNCHANGED <<total_rows, max_routes, max_processes, origin_ranges, total_jobs,
                   jobs, consumed, completed_jobs, route_fcs, out_routes, warnings,
                   rt_inputs, validations, submitted, rt, call>>

\* The clean-up step, then the final log line: solve_route_in_parallel returns.
CleanUp ==
    /\ pc = "cleanup"
    /\ DeleteIntermediateOutputs
    /\ pc' = "done"
    /\ UNCHANGED <<total_rows, max_routes, max_processes, origin_ranges, total_jobs,
                   jobs, consumed, completed_jobs, route_fcs, out_routes, error,
                   rt_inputs, validations, submitted, rt, call>>

Next ==
    \/ validate_route_settings
    \/ populate_input_data_transfer_fields
    \/ SubmitJobs
    \/ \E i \in Chunks : JobStart(i)
    \/ \E i \in Chunks : JobFinish(i)
    \/ \E i \in Chunks : DrainCompletion(i)
    \/ AbortBatch
    \/ PostProcess
    \/ CleanUp

Spec == Init /\ [][Next]_vars

\* Every job that is started returns or raises in the end, the pool starts a
\* queued job when a worker is free, and the dispatching thread goes on
\* whenever it is not waiting.
LiveInit == Init /\ total_rows <= MaxLiveRows

LiveSpec == LiveInit /\ [][Next]_vars /\ WF_vars(Next)

\* ---------------------------------------------------------------- clean-up again

\* The clean-up step (lines 658-666) run once more on a batch that has ended,
\* whatever the first run left behind.
CleanUpAgain ==
    /\ pc = "done"
    /\ Len(cleanup_log) < MaxCleanups
    /\ DeleteIntermediateOutputs
    /\ UNCHANGED <<pc, total_rows, max_routes, max_processes, origin_ranges, total_jobs,
                   jobs, consumed, completed_jobs, route_fcs, out_routes, error,
                   rt_inputs, validations, submitted, rt, call>>

CleanupNext == Next \/ CleanUpAgain

CleanupSpec == Init /\ [][CleanupNext]_vars

\* ---------------------------------------------------------------- planning alone

\* The inputs of the chunk planner, before ParallelRoutePairCalculator.__init__
\* has built the plan.
PlanInit ==
    /\ pc = "plan"
    /\ total_rows \in 0..MaxPlanRows
    /\ max_routes \in (1 - MaxBadChunk)..MaxPlanChunk
    /\ max_processes = 1
    /\ origin_ranges = <<>>
    /\ total_jobs = 0
    /\ jobs = <<>>
    /\ consumed = <<>>
    /\ completed_jobs = 0
    /\ route_fcs = <<>>
    /\ out_routes = NoOutput
    /\ job_folders = {}
    /\ scratch_exists = TRUE
    /\ error = NoError
    /\ warnings = {}
    /\ rt_inputs = InitialInputs
    /\ validations = 0
    /\ submitted = <<>>
    /\ cleanup_log = <<>>
    /\ rt = NoRoute
    /\ call = NoCall

\* The row the next chunk of the plan under construction starts at.
PlanCursor ==
    IF origin_ranges = <<>> THEN 1 ELSE origin_ranges[Len(origin_ranges)][2] + 1

\* The planner rejects a cap that is not positive and goes on as if the plan
\* were empty.
PlanFailReturnsNoChunks ==
    /\ pc = "plan"
    /\ max_routes <= 0
    /\ pc' = "planned"
    /\ UNCHANGED <<total_rows, max_routes, max_processes, origin_ranges, total_jobs,
                   jobs, consumed, completed_jobs, route_fcs, out_routes, job_folders,
                   scratch_exists, error, warnings,
                   rt_inputs, validations, submitted, cleanup_log, rt, call>>

\* The planner rejects a cap that is not positive: InvalidConfiguration leaves
\* ParallelRoutePairCalculator.__init__, before solve_route_in_parallel can be
\* called.
PlanFail ==
    /\ pc = "plan"
    /\ max_routes <= 0
    /\ pc' = "raised"
    /\ error' = [kind |-> "InvalidConfiguration", chunk |-> 0]
    /\ UNCHANGED <<total_rows, max_routes, max_processes, origin_ranges, total_jobs,
                   jobs, consumed, completed_jobs, route_fcs, out_routes, job_folders,
                   scratch_exists, warnings,
                   rt_inputs, validations, submitted, cleanup_log, rt, call>>

\* The planner closes one more chunk.
PlanChunk ==
    /\ pc = "plan"
    /\ max_routes > 0
    /\ PlanCursor <= total_rows
    /\ origin_ranges' = Append(origin_ranges, NextChunk(PlanCursor, total_rows, max_routes))
    /\ UNCHANGED <<pc, total_rows, max_routes, max_processes, total_jobs, jobs, consumed,
                   completed_jobs, route_fcs, out_routes, job_folders,
                   scratch_exists, error, warnings,
                   rt_inputs, validations, submitted, cleanup_log, rt, call>>

\* The planner returns and __init__ counts the jobs.
PlanReturn ==
    /\ pc = "plan"
    /\ max_routes > 0
    /\ PlanCursor > total_rows
    /\ total_jobs' = Len(origin_ranges)
    /\ pc' = "planned"
    /\ UNCHANGED <<total_rows, max_routes, max_processes, origin_ranges, jobs, consumed,
                   completed_jobs, route_fcs, out_routes, job_folders,
                   scratch_exists, error, warnings,
                   rt_inputs, validations, submitted, cleanup_log, rt, call>>

PlanNext == PlanFail \/ PlanChunk \/ PlanReturn

PlanSpec == PlanInit /\ [][PlanNext]_vars

\* ---------------------------------------------------------------- one job, step by step

\* Every variable of the batch: a job that is followed step by step, and a
\* call of a helpers.py function, leave them alone.
batch == <<pc, total_rows, max_routes, max_processes, origin_ranges, total_jobs,
           jobs, consumed, completed_jobs, route_fcs, out_routes, job_folders,
           scratch_exists, error, warnings, rt_inputs, validations, submitted,
           cleanup_log>>

\* The batch variables while no batch runs.
NoBatch ==
    /\ total_rows = 0
    /\ max_routes = 1
    /\ max_processes = 1
    /\ origin_ranges = <<>>
    /\ total_jobs = 0
    /\ jobs = <<>>
    /\ consumed = <<>>
    /\ completed_jobs = 0
    /\ route_fcs = <<>>
    /\ out_routes = NoOutput
    /\ job_folders = {}
    /\ scratch_exists = TRUE
    /\ error = NoError
    /\ warnings = {}
    /\ rt_inputs = InitialInputs
    /\ validations = 0
    /\ submitted = <<>>
    /\ cleanup_log = <<>>

\* A null field value.
None == "None"

\* The values the assigned-destination field and the destination id field take.
DestinationIds == {"A", "B"}

\* The properties of arcpy.nax.Route that are followed.
SolverProps ==
    {"travelMode", "timeUnits", "distanceUnits", "timeOfDay",
     "searchTolerance", "routeShapeType"}

\* rt_config.RT_PROPS_SET_BY_TOOL: the properties the tool parameters control.
RT_PROPS_SET_BY_TOOL == {"travelMode", "timeUnits", "distanceUnits", "timeOfDay"}

\* The properties initialize_rt_solver sets from the tool parameters.
ToolProps == {"travelMode", "timeUnits", "distanceUnits", "timeOfDay"}

\* arcpy.nax.Route(network_data_source): every property at the engine default.
nax_Route == [p \in SolverProps |-> "default"]

\* The job result of a Route instance, with the solver messages.
Route_job_result(job_id) ==
    [jobId |-> job_id, solveSucceeded |-> FALSE, solveMessages |-> "",
     outputRoutes |-> NoPath]

\* Route.__init__ for one chunk of an origins table: origins[k] is the
\* assigned destination of the origin with ObjectID k, destinations the ids
\* in the destinations table, RT_PROPS the keys of the static property table,
\* unsettable the properties whose setattr raises.
Route(origins, chunk, destinations, reverse_direction, is_service, props, unsettable) ==
    [step |-> "constructed",
     origins |-> origins,
     chunk |-> chunk,
     destinations |-> destinations,
     reverse_direction |-> reverse_direction,
     is_service |-> is_service,
     RT_PROPS |-> props,
     unsettable |-> unsettable,
     input_origins_layer |-> <<>>,
     rt_solver |-> nax_Route,
     logged |-> {},
     stops |-> <<>>,
     solve_calls |-> 0,
     export_calls |-> 0,
     job_result |-> Route_job_result(<<48>>)]

\* Route._select_inputs: the ObjectIDs the where clause selects, in cursor order.
select_inputs(r, origins_criteria) ==
    [r EXCEPT !.step = "selected",
              !.input_origins_layer =
                  Ascending({k \in DOMAIN r.origins :
                                origins_criteria[1] <= k /\ k <= origins_criteria[2]})]

\* The static table is applied after the tool parameters and skips nothing.
initialize_rt_solver_table_last(r) ==
    [r EXCEPT !.step = "initialized",
              !.rt_solver =
                  [p \in SolverProps |->
                      IF p \in r.RT_PROPS /\ p \notin r.unsettable THEN "table"
                      ELSE IF p \in ToolProps THEN "caller"
                      ELSE "default"],
              !.logged = {}]

\* Route.initialize_rt_solver: a fresh solver, then the loop over RT_PROPS
\* (skip what the tool sets, setattr, warn when setattr raises), then the
\* four assignments from the tool parameters.
initialize_rt_solver(r) ==
    LET attempted == r.RT_PROPS \ RT_PROPS_SET_BY_TOOL
        from_table == [p \in SolverProps |->
                          IF p \in attempted /\ p \notin r.unsettable
                          THEN "table" ELSE nax_Route[p]]
    IN [r EXCEPT
          !.step = "initialized",
          !.rt_solver = [p \in SolverProps |->
                            IF p \in ToolProps THEN "caller" ELSE from_table[p]],
          !.logged =
              {[warning |-> "ignored", prop |-> p] :
                   p \in r.RT_PROPS \cap RT_PROPS_SET_BY_TOOL}
              \cup {[warning |-> "failed", prop |-> p] :
                       p \in {q \in attempted \cap r.unsettable :
                                 ~(r.is_service
                                     /\ q \in {"searchTolerance", "searchToleranceUnits"})}}]

\* The cursor yields a row for every id.
next_row_always(destinations, dest_id) ==
    [raised |-> FALSE, row |-> dest_id]

\* next(cur) on the destinations whose id is dest_id: StopIteration when none.
next_row(destinations, dest_id) ==
    IF dest_id \in destinations
    THEN [raised |-> FALSE, row |-> dest_id]
    ELSE [raised |-> TRUE, row |-> None]

\* f"{origin[1]} - {dest_id}", or the other way round when reversed.
route_name(origin_id, dest_id, reverse_direction) ==
    IF reverse_direction
    THEN dest_id \o " - " \o origin_id
    ELSE origin_id \o " - " \o dest_id

\* The origin is the first stop in either direction.
origin_row_always_first(origin_id, dest_id, reverse_direction) ==
    [RouteName |-> route_name(origin_id, dest_id, reverse_direction),
     Sequence |-> 1,
     OriginUniqueID |-> origin_id,
     DestinationUniqueID |-> None]

\* The Stops row of an origin.
origin_row(origin_id, dest_id, reverse_direction) ==
    [RouteName |-> route_name(origin_id, dest_id, reverse_direction),
     Sequence |-> IF reverse_direction THEN 2 ELSE 1,
     OriginUniqueID |-> origin_id,
     DestinationUniqueID |-> None]

\* The Stops row of the destination of an origin.
destination_row(origin_id, dest_id, destination, reverse_direction) ==
    [RouteName |-> route_name(origin_id, dest_id, reverse_direction),
     Sequence |-> IF reverse_direction THEN 1 ELSE 2,
     OriginUniqueID |-> None,
     DestinationUniqueID |-> destination]

\* The loop of Route._insert_stops over the origins that are left: found is
\* the keys of the dictionary destinations, rows the origin rows inserted and
\* the destination rows put aside so far.
RECURSIVE insert_origins(_, _, _, _)
insert_origins(r, oids, found, rows) ==
    IF oids = <<>> THEN rows
    ELSE LET dest_id == r.origins[Head(oids)]
             cur == next_row(r.destinations, dest_id)
         IN IF dest_id = None
            THEN insert_origins(r, Tail(oids), found, rows)
            ELSE IF dest_id \notin found /\ cur.raised
            THEN \* except StopIteration: continue
                 insert_origins(r, Tail(oids), found, rows)
            ELSE insert_origins(
                     r, Tail(oids), found \cup {dest_id},
                     [origin_rows |->
                          Append(rows.origin_rows,
                                 origin_row(ToString(Head(oids)), dest_id,
                                            r.reverse_direction)),
                      destination_rows |->
                          Append(rows.destination_rows,
                                 destination_row(ToString(Head(oids)), dest_id, cur.row,
                                                 r.reverse_direction))])

\* Route._insert_stops: the origin rows, then the destination rows.
insert_stops(r) ==
    LET rows == insert_origins(r, r.input_origins_layer, {},
                               [origin_rows |-> <<>>, destination_rows |-> <<>>])
    IN [r EXCEPT !.step = "inserted",
                 !.stops = rows.origin_rows \o rows.destination_rows]

\* Route.solve calls the engine whether or not there are stops.
solve_without_count(r, solveSucceeded) ==
    IF ~solveSucceeded
    THEN [r EXCEPT !.step = "returned",
                   !.solve_calls = @ + 1,
                   !.job_result.solveMessages = "solve failed"]
    ELSE [r EXCEPT !.step = "solved",
                   !.solve_calls = @ + 1,
                   !.job_result.solveMessages = "solve succeeded",
                   !.job_result.solveSucceeded = TRUE]

\* Route.solve goes on to the export after a solve that failed.
solve_exports_after_failure(r, solveSucceeded) ==
    IF Len(r.stops) = 0
    THEN [r EXCEPT !.step = "returned"]
    ELSE IF ~solveSucceeded
    THEN [r EXCEPT !.step = "solved",
                   !.solve_calls = @ + 1,
                   !.job_result.solveMessages = "solve failed"]
    ELSE [r EXCEPT !.step = "solved",
                   !.solve_calls = @ + 1,
                   !.job_result.solveMessages = "solve succeeded",
                   !.job_result.solveSucceeded = TRUE]

\* Route.solve from the count of the stops to the call of the export:
\* solveSucceeded is what the engine reports.
solve(r, solveSucceeded) ==
    IF Len(r.stops) = 0
    THEN [r EXCEPT !.step = "returned"]
    ELSE IF ~solveSucceeded
    THEN [r EXCEPT !.step = "returned",
                   !.solve_calls = @ + 1,
                   !.job_result.solveMessages = "solve failed"]
    ELSE [r EXCEPT !.step = "solved",
                   !.solve_calls = @ + 1,
                   !.job_result.solveMessages = "solve succeeded",
                   !.job_result.solveSucceeded = TRUE]

\* The origins tables of at most MaxOrigins rows with a chunk of each.
JobInputs ==
    {[origins |-> o, chunk |-> <<lo, hi>>] :
        o \in UNION {[1..n -> DestinationIds \cup {None}] : n \in 1..MaxOrigins},
        lo \in 1..MaxOrigins, hi \in 1..MaxOrigins}

JobInit ==
    /\ pc = "job"
    /\ NoBatch
    /\ call = NoCall
    /\ \E i \in {j \in JobInputs : j.chunk[1] <= j.chunk[2] /\ j.chunk[2] <= Len(j.origins)},
          destinations \in SUBSET DestinationIds,
          reverse_direction \in BOOLEAN, is_service \in BOOLEAN :
          rt = Route(i.origins, i.chunk, destinations, reverse_direction, is_service,
                     {"searchTolerance", "routeShapeType"}, {})

SelectInputs ==
    /\ rt.step = "constructed"
    /\ rt' = select_inputs(rt, rt.chunk)
    /\ UNCHANGED <<batch, call>>

InitializeSolver ==
    /\ rt.step = "selected"
    /\ rt' = initialize_rt_solver(rt)
    /\ UNCHANGED <<batch, call>>

InsertStops ==
    /\ rt.step = "initialized"
    /\ rt' = insert_stops(rt)
    /\ UNCHANGED <<batch, call>>

SolveRoute ==
    /\ rt.step = "inserted"
    /\ \E solveSucceeded \in BOOLEAN : rt' = solve(rt, solveSucceeded)
    /\ UNCHANGED <<batch, call>>

ExportRoute ==
    /\ rt.step = "solved"
    /\ rt' = [rt EXCEPT !.step = "returned",
                        !.export_calls = @ + 1,
                        !.job_result = export_to_feature_class(@, rt.chunk)]
    /\ UNCHANGED <<batch, call>>

JobNext == SelectInputs \/ InitializeSolver \/ InsertStops \/ SolveRoute \/ ExportRoute

JobSpec == JobInit /\ [][JobNext]_vars

\* The solver set up from every static table.
SolverInit ==
    /\ pc = "job"
    /\ NoBatch
    /\ call = NoCall
    /\ \E props \in SUBSET SolverProps, is_service \in BOOLEAN :
          \E unsettable \in SUBSET props :
             rt = select_inputs(Route(<<"A">>, <<1, 1>>, {"A"}, FALSE, is_service,
                                      props, unsettable),
                                <<1, 1>>)

SolverSpec == SolverInit /\ [][InitializeSolver]_vars

\* ---------------------------------------------------------------- helpers.py

\* str.lower() and str.upper() on the letters A..Z: every other character is
\* left as it is.
UpperCase == <<"A", "B", "C", "D", "E", "F", "G", "H", "I", "J", "K", "L", "M", "N", "O", "P", "Q", "R", "S", "T", "U", "V", "W", "X", "Y", "Z">>
LowerCase == <<"a", "b", "c", "d", "e", "f", "g", "h", "i", "j", "k", "l", "m", "n", "o", "p", "q", "r", "s", "t", "u", "v", "w", "x", "y", "z">>

char_lower(c) ==
    IF \E k \in DOMAIN UpperCase : UpperCase[k] = c
    THEN LowerCase[CHOOSE k \in DOMAIN UpperCase : UpperCase[k] = c]
    ELSE c

char_upper(c) ==
    IF \E k \in DOMAIN LowerCase : LowerCase[k] = c
    THEN UpperCase[CHOOSE k \in DOMAIN LowerCase : LowerCase[k] = c]
    ELSE c

\* s.lower(), a string being the sequence of its characters.
lower(s) == [k \in DOMAIN s |-> char_lower(s[k])]

\* s.startswith(prefix)
startswith(s, prefix) ==
    /\ Len(s) >= Len(prefix)
    /\ SubSeq(s, 1, Len(prefix)) = prefix

\* The strings of at most n characters of an alphabet.
Strings(alphabet, n) == UNION {[1..k -> alphabet] : k \in 0..n}

\* The spellings of a word in every letter case.
RECURSIVE Spellings(_)
Spellings(w) ==
    IF w = <<>> THEN {<<>>}
    ELSE {<<c>> \o v : c \in {char_lower(Head(w)), char_upper(Head(w))},
                       v \in Spellings(Tail(w))}

MSG_STR_SPLITTER == <<" ", "|", " ">>

TIME_UNITS ==
    {<<"D", "a", "y", "s">>, <<"H", "o", "u", "r", "s">>, <<"M", "i", "n", "u", "t", "e", "s">>, <<"S", "e", "c", "o", "n", "d", "s">>}

DISTANCE_UNITS ==
    {<<"K", "i", "l", "o", "m", "e", "t", "e", "r", "s">>, <<"M", "e", "t", "e", "r", "s">>, <<"M", "i", "l", "e", "s">>, <<"Y", "a", "r", "d", "s">>, <<"F", "e", "e", "t">>,
     <<"N", "a", "u", "t", "i", "c", "a", "l", "M", "i", "l", "e", "s">>}

\* A function that returned a value, having written messages to the
\* geoprocessing window.
Returned(value, gp_messages) ==
    [raised |-> "none", value |-> value, gp_messages |-> gp_messages]

\* A function that raised, having written messages to the geoprocessing window.
Raised(exception, err, gp_messages) ==
    [raised |-> exception, value |-> err, gp_messages |-> gp_messages]

\* arcpy.AddError, AddWarning, AddMessage
AddError(msg) == [severity |-> "error", text |-> msg]
AddWarning(msg) == [severity |-> "warning", text |-> msg]
AddMessage(msg) == [severity |-> "info", text |-> msg]

\* is_nds_service asks only whether the value starts with "http".
is_nds_service_any_type(network_data_source) ==
    Returned(startswith(network_data_source.value, <<"h", "t", "t", "p">>), <<>>)

\* helpers.is_nds_service: network_data_source is a value with its type.
is_nds_service(network_data_source) ==
    IF network_data_source.type # "str"
    THEN Returned(FALSE, <<>>)
    ELSE Returned(startswith(network_data_source.value, <<"h", "t", "t", "p">>), <<>>)

\* The name is compared as it was typed.
convert_time_units_exact_case(time_units) ==
    IF time_units = <<"m", "i", "n", "u", "t", "e", "s">>
    THEN Returned([enum |-> "TimeUnits", member |-> <<"M", "i", "n", "u", "t", "e", "s">>], <<>>)
    ELSE IF time_units = <<"s", "e", "c", "o", "n", "d", "s">>
    THEN Returned([enum |-> "TimeUnits", member |-> <<"S", "e", "c", "o", "n", "d", "s">>], <<>>)
    ELSE IF time_units = <<"h", "o", "u", "r", "s">>
    THEN Returned([enum |-> "TimeUnits", member |-> <<"H", "o", "u", "r", "s">>], <<>>)
    ELSE IF time_units = <<"d", "a", "y", "s">>
    THEN Returned([enum |-> "TimeUnits", member |-> <<"D", "a", "y", "s">>], <<>>)
    ELSE LET err == <<"Invalid time units: ">> \o time_units
         IN Raised("ValueError", err, <<AddError(err)>>)

\* helpers.convert_time_units_str_to_enum
convert_time_units_str_to_enum(time_units) ==
    IF lower(time_units) = <<"m", "i", "n", "u", "t", "e", "s">>
    THEN Returned([enum |-> "TimeUnits", member |-> <<"M", "i", "n", "u", "t", "e", "s">>], <<>>)
    ELSE IF lower(time_units) = <<"s", "e", "c", "o", "n", "d", "s">>
    THEN Returned([enum |-> "TimeUnits", member |-> <<"S", "e", "c", "o", "n", "d", "s">>], <<>>)
    ELSE IF lower(time_units) = <<"h", "o", "u", "r", "s">>
    THEN Returned([enum |-> "TimeUnits", member |-> <<"H", "o", "u", "r", "s">>], <<>>)
    ELSE IF lower(time_units) = <<"d", "a", "y", "s">>
    THEN Returned([enum |-> "TimeUnits", member |-> <<"D", "a", "y", "s">>], <<>>)
    ELSE LET err == <<"Invalid time units: ">> \o time_units
         IN Raised("ValueError", err, <<AddError(err)>>)

\* Nautical miles are left out.
convert_distance_units_without_nautical(distance_units) ==
    IF lower(distance_units) = <<"m", "i", "l", "e", "s">>
    THEN Returned([enum |-> "DistanceUnits", member |-> <<"M", "i", "l", "e", "s">>], <<>>)
    ELSE IF lower(distance_units) = <<"k", "i", "l", "o", "m", "e", "t", "e", "r", "s">>
    THEN Returned([enum |-> "DistanceUnits", member |-> <<"K", "i", "l", "o", "m", "e", "t", "e", "r", "s">>], <<>>)
    ELSE IF lower(distance_units) = <<"m", "e", "t", "e", "r", "s">>
    THEN Returned([enum |-> "DistanceUnits", member |-> <<"M", "e", "t", "e", "r", "s">>], <<>>)
    ELSE IF lower(distance_units) = <<"f", "e", "e", "t">>
    THEN Returned([enum |-> "DistanceUnits", member |-> <<"F", "e", "e", "t">>], <<>>)
    ELSE IF lower(distance_units) = <<"y", "a", "r", "d", "s">>
    THEN Returned([enum |-> "DistanceUnits", member |-> <<"Y", "a", "r", "d", "s">>], <<>>)
    ELSE LET err == <<"Invalid distance units: ">> \o distance_units
         IN Raised("ValueError", err, <<AddError(err)>>)

\* helpers.convert_distance_units_str_to_enum
convert_distance_units_str_to_enum(distance_units) ==
    IF lower(distance_units) = <<"m", "i", "l", "e", "s">>
    THEN Returned([enum |-> "DistanceUnits", member |-> <<"M", "i", "l", "e", "s">>], <<>>)
    ELSE IF lower(distance_units) = <<"k", "i", "l", "o", "m", "e", "t", "e", "r", "s">>
    THEN Returned([enum |-> "DistanceUnits", member |-> <<"K", "i", "l", "o", "m", "e", "t", "e", "r", "s">>], <<>>)
    ELSE IF lower(distance_units) = <<"m", "e", "t", "e", "r", "s">>
    THEN Returned([enum |-> "DistanceUnits", member |-> <<"M", "e", "t", "e", "r", "s">>], <<>>)
    ELSE IF lower(distance_units) = <<"f", "e", "e", "t">>
    THEN Returned([enum |-> "DistanceUnits", member |-> <<"F", "e", "e", "t">>], <<>>)
    ELSE IF lower(distance_units) = <<"y", "a", "r", "d", "s">>
    THEN Returned([enum |-> "DistanceUnits", member |-> <<"Y", "a", "r", "d", "s">>], <<>>)
    ELSE IF \/ lower(distance_units) = <<"n", "a", "u", "t", "i", "c", "a", "l", "m", "i", "l", "e", "s">>
            \/ lower(distance_units) = <<"n", "a", "u", "t", "i", "c", "a", "l", " ", "m", "i", "l", "e", "s">>
    THEN Returned([enum |-> "DistanceUnits", member |-> <<"N", "a", "u", "t", "i", "c", "a", "l", "M", "i", "l", "e", "s">>], <<>>)
    ELSE LET err == <<"Invalid distance units: ">> \o distance_units
         IN Raised("ValueError", err, <<AddError(err)>>)

\* The row count is read before the existence check.
validate_input_feature_class_count_first(feature_class) ==
    IF ~feature_class.exists
    THEN Raised("ExecuteError", <<>>, <<>>)
    ELSE IF feature_class.rows <= 0
    THEN LET err == <<"Input dataset ", feature_class.name, " has no rows.">>
         IN Raised("ValueError", err, <<AddError(err)>>)
    ELSE Returned(None, <<>>)

\* helpers.validate_input_feature_class: feature_class is a dataset that
\* exists or not, with its rows.
validate_input_feature_class(feature_class) ==
    IF ~feature_class.exists
    THEN LET err == <<"Input dataset ", feature_class.name, " does not exist.">>
         IN Raised("ValueError", err, <<AddError(err)>>)
    ELSE IF feature_class.rows <= 0
    THEN LET err == <<"Input dataset ", feature_class.name, " has no rows.">>
         IN Raised("ValueError", err, <<AddError(err)>>)
    ELSE Returned(None, <<>>)

\* s.find(sep) + 1: where sep first occurs in s, 0 when it does not.
find(s, sep) ==
    LET at == {k \in 1..(Len(s) - Len(sep) + 1) : SubSeq(s, k, k + Len(sep) - 1) = sep}
    IN IF at = {} THEN 0 ELSE CHOOSE k \in at : \A l \in at : k <= l

\* s.split(sep)
RECURSIVE split(_, _)
split(s, sep) ==
    LET k == find(s, sep)
    IN IF k = 0 THEN <<s>>
       ELSE <<SubSeq(s, 1, k - 1)>> \o split(SubSeq(s, k + Len(sep), Len(s)), sep)

\* The unpacking raises when the message has not two parts.
parse_std_without_except(msg_string) ==
    LET parts == split(msg_string, MSG_STR_SPLITTER)
    IN IF Len(parts) # 2
       THEN Raised("ValueError", <<>>, <<>>)
       ELSE IF parts[1] \in {<<"ERROR">>, <<"CRITICAL">>}
       THEN Returned(None, <<AddError(parts[2])>>)
       ELSE IF parts[1] = <<"WARNING">>
       THEN Returned(None, <<AddWarning(parts[2])>>)
       ELSE Returned(None, <<AddMessage(parts[2])>>)

\* helpers.parse_std_and_write_to_gp_ui: the level names are single symbols
\* of a message, every other character is one symbol.
parse_std_and_write_to_gp_ui(msg_string) ==
    LET parts == split(msg_string, MSG_STR_SPLITTER)
    IN IF Len(parts) # 2
       THEN \* level, msg = ... raises ValueError, caught
            Returned(None, <<AddMessage(msg_string)>>)
       ELSE IF parts[1] \in {<<"ERROR">>, <<"CRITICAL">>}
       THEN Returned(None, <<AddError(parts[2])>>)
       ELSE IF parts[1] = <<"WARNING">>
       THEN Returned(None, <<AddWarning(parts[2])>>)
       ELSE Returned(None, <<AddMessage(parts[2])>>)

\* The strings the unit conversions are called with: every spelling of the
\* names and of some other words, and every short string of a few characters.
TimeUnitInputs ==
    UNION {Spellings(w) : w \in TIME_UNITS \cup {<<"D", "a", "y">>, <<"W", "e", "e", "k", "s">>, <<"B", "a", "d", "U", "n", "i", "t">>}}
        \cup Strings({"d", "a", "y", "s", "S", " "}, MaxUnitLen)

DistanceUnitInputs ==
    UNION {Spellings(w) : w \in DISTANCE_UNITS
                                 \cup {<<"N", "a", "u", "t", "i", "c", "a", "l", " ", "M", "i", "l", "e", "s">>, <<"N", "a", "u", "t", "i", "c", "a", "l", "_", "M", "i", "l", "e", "s">>,
                                       <<"M", "i", "l", "e">>, <<"B", "a", "d", "U", "n", "i", "t">>}}
        \cup Strings({"f", "e", "t", "T", " "}, MaxUnitLen)

\* The datasets validate_input_feature_class is called with.
FeatureClasses ==
    [name : {"Origins"}, exists : BOOLEAN, rows : 0..MaxRows]

\* The messages of a subprocess: level, splitter and text, with or without a
\* third part, and every short message of a few symbols.
Levels == {<<"ERROR">>, <<"CRITICAL">>, <<"WARNING">>, <<"INFO">>, <<"DEBUG">>, <<"error">>}

MessageInputs ==
    {l \o MSG_STR_SPLITTER \o t : l \in Levels, t \in {<<>>, <<"x">>, <<"x", " ", "|">>}}
        \cup {l \o MSG_STR_SPLITTER \o <<"x">> \o MSG_STR_SPLITTER \o t :
                 l \in Levels, t \in {<<>>, <<"x">>}}
        \cup Strings({"ERROR", "x", " ", "|"}, MaxMsgLen)

\* The network data sources is_nds_service is called with: strings, and
\* values of other types.
NetworkDataSources ==
    [type : {"str"}, value : Strings({"h", "t", "p", "H", "s"}, MaxUrlLen)]
        \cup [type : {"Layer", "bytes", "NoneType"}, value : {<<>>, <<"h", "t", "t", "p">>, <<"h", "t", "t", "p", "s">>}]

HelperInit ==
    /\ pc = "helper"
    /\ NoBatch
    /\ rt = NoRoute
    /\ \/ \E x \in NetworkDataSources :
             call = [fn |-> "is_nds_service", arg |-> x, st |-> "called"]
       \/ \E x \in TimeUnitInputs :
             call = [fn |-> "convert_time_units_str_to_enum", arg |-> x, st |-> "called"]
       \/ \E x \in DistanceUnitInputs :
             call = [fn |-> "convert_distance_units_str_to_enum", arg |-> x, st |-> "called"]
       \/ \E x \in FeatureClasses :
             call = [fn |-> "validate_input_feature_class", arg |-> x, st |-> "called"]
       \/ \E x \in MessageInputs :
             call = [fn |-> "parse_std_and_write_to_gp_ui", arg |-> x, st |-> "called"]

\* The call ends: it has returned or raised.
Ended(result) ==
    [fn |-> call.fn, arg |-> call.arg, st |-> "ended", result |-> result]

IsNdsService ==
    /\ call.fn = "is_nds_service"
    /\ call.st = "called"
    /\ call' = Ended(is_nds_service(call.arg))
    /\ UNCHANGED <<batch, rt>>

ConvertTimeUnits ==
    /\ call.fn = "convert_time_units_str_to_enum"
    /\ call.st = "called"
    /\ call' = Ended(convert_time_units_str_to_enum(call.arg))
    /\ UNCHANGED <<batch, rt>>

ConvertDistanceUnits ==
    /\ call.fn = "convert_distance_units_str_to_enum"
    /\ call.st = "called"
    /\ call' = Ended(convert_distance_units_str_to_enum(call.arg))
    /\ UNCHANGED <<batch, rt>>

ValidateInputFeatureClass ==
    /\ call.fn = "validate_input_feature_class"
    /\ call.st = "called"
    /\ call' = Ended(validate_input_feature_class(call.arg))
    /\ UNCHANGED <<batch, rt>>

ParseStd ==
    /\ call.fn = "parse_std_and_write_to_gp_ui"
    /\ call.st = "called"
    /\ call' = Ended(parse_std_and_write_to_gp_ui(call.arg))
    /\ UNCHANGED <<batch, rt>>

HelperNext ==
    \/ IsNdsService
    \/ ConvertTimeUnits
    \/ ConvertDistanceUnits
    \/ ValidateInputFeatureClass
    \/ ParseStd

HelperSpec == HelperInit /\ [][HelperNext]_vars

\* ---------------------------------------------------------------- properties

Succeeded == {i \in Finished : ~jobs[i].raised /\ jobs[i].job_result.solveSucceeded}
SolveFailed == {i \in Finished : ~jobs[i].raised /\ ~jobs[i].job_result.solveSucceeded}
Crashed == {i \in Finished : jobs[i].raised}

Occurrences(s, x) == Cardinality({k \in 1..Len(s) : s[k] = x})

RECURSIVE SumOver(_, _)
SumOver(S, f) ==
    IF S = {} THEN 0
    ELSE LET x == CHOOSE y \in S : TRUE IN f[x] + SumOver(S \ {x}, f)

\* C1: for every total_row_count >= 0 and max_chunk_size > 0 the plan's ranges
\* are contiguous, do not overlap, cover exactly 1..total_row_count, and number
\* ceil(total_row_count / max_chunk_size); there are 0 chunks iff there are 0 rows.
C1_PlanCoversInput ==
    pc = "planned" =>
        LET n == total_rows
            m == max_routes
            r == origin_ranges
        IN /\ \A k \in 1..Len(r) : r[k][1] <= r[k][2]
           /\ \A k \in 1..(Len(r) - 1) : r[k + 1][1] = r[k][2] + 1
           /\ \A k, l \in 1..Len(r) :
                 k # l => (r[k][1]..r[k][2]) \cap (r[l][1]..r[l][2]) = {}
           /\ UNION {r[k][1]..r[k][2] : k \in 1..Len(r)} = 1..n
           /\ Len(r) = (n + m - 1) \div m
           /\ total_jobs = Len(r)
           /\ (Len(r) = 0 <=> n = 0)

C1_Witness ==
    /\ pc = "planned"
    /\ total_rows = 7
    /\ max_routes = 3
    /\ origin_ranges = <<<<1, 3>>, <<4, 6>>, <<7, 7>>>>

\* C2: for total_row_count >= 1 the i-th chunk is
\* [(i-1)*max_chunk_size + 1, min(i*max_chunk_size, total_row_count)]: low <= high,
\* at most max_chunk_size rows, exactly max_chunk_size in every chunk but the
\* last; 208 rows with a cap of 50 give [1,50],[51,100],[101,150],[151,200],[201,208].
C2_ChunkBounds ==
    (pc = "planned" /\ total_rows >= 1) =>
        LET n == total_rows
            m == max_routes
            r == origin_ranges
        IN /\ Len(r) >= 1
           /\ \A i \in 1..Len(r) :
                 /\ r[i] = <<(i - 1) * m + 1, Min(i * m, n)>>
                 /\ r[i][1] <= r[i][2]
                 /\ r[i][2] - r[i][1] + 1 <= m
                 /\ (i < Len(r) => r[i][2] - r[i][1] + 1 = m)
           /\ (n = 208 /\ m = 50) =>
                 r = <<<<1, 50>>, <<51, 100>>, <<101, 150>>, <<151, 200>>, <<201, 208>>>>

C2_Witness ==
    /\ pc = "planned"
    /\ total_rows = 208
    /\ max_routes = 50
    /\ Len(origin_ranges) = 5
    /\ origin_ranges[5] = <<201, 208>>

\* Pre-flight validation passed and the jobs were submitted.
Dispatched ==
    \/ pc \in {"draining", "aborting", "cleanup", "done"}
    \/ pc = "raised" /\ error.kind = "transport"

\* The batch has left the as_completed loop without a fatal error.
Collected == pc \in {"cleanup", "done"}

\* The output location of a job that succeeded.
PathOf(i) == jobs[i].job_result.outputRoutes

\* The rows of the jobs of S, least output location first.
RECURSIVE RowsInPathOrder(_)
RowsInPathOrder(S) ==
    IF S = {} THEN <<>>
    ELSE LET i == CHOOSE k \in S : \A l \in S \ {k} : PathLess(PathOf(k), PathOf(l))
         IN jobs[i].rows \o RowsInPathOrder(S \ {i})

\* C3: a job that returns normally with solveSucceeded false never aborts the
\* batch: no such job is the cause of a fatal error, the loop goes on after it,
\* and when the loop has ended every chunk was consumed and the output of every
\* chunk that succeeded was collected.
C3_FailedSolveNeverAborts ==
    /\ error.kind = "transport" => error.chunk \notin SolveFailed
    /\ \A k \in 1..Len(consumed) :
          consumed[k] \in SolveFailed =>
              /\ (pc \in {"aborting", "raised"} => error.chunk \in Range(consumed) \ {consumed[k]})
              /\ (Collected =>
                     /\ Range(consumed) = Chunks
                     /\ \A i \in Succeeded : PathOf(i) \in Range(route_fcs))

C3_Witness ==
    /\ pc = "done"
    /\ Len(consumed) = 3
    /\ consumed[1] \in SolveFailed
    /\ consumed[2] \in SolveFailed
    /\ consumed[3] \in Succeeded
    /\ route_fcs = <<PathOf(consumed[3])>>
    /\ out_routes.exists

\* C4: if retrieving the result of one job raises, solve_route_in_parallel fails
\* with that error, however many jobs were consumed successfully before it and
\* wherever the job stands in the completion order: from then on the call is
\* aborting or has raised, with that job's error, and never ends normally.
C4_TransportErrorFailsBatch ==
    /\ \A k \in 1..Len(consumed) :
          jobs[consumed[k]].raised =>
              /\ pc \in {"aborting", "raised"}
              /\ error = [kind |-> "transport", chunk |-> consumed[k]]
              /\ k = Len(consumed)
    /\ Collected => error = NoError /\ Crashed = {}

C4_Witness ==
    /\ pc = "raised"
    /\ Len(consumed) = 3
    /\ consumed[1] \in Succeeded
    /\ consumed[2] \in Succeeded
    /\ consumed[3] \in Crashed
    /\ error = [kind |-> "transport", chunk |-> consumed[3]]

\* C5: the batch never partially merges: in every run that ends in a fatal
\* abort (pre-flight failure or worker-transport failure) the combined output is
\* never created or written, whatever jobs had succeeded before the abort.
C5_NoMergeOnAbort ==
    (error # NoError \/ pc \in {"aborting", "raised"}) => out_routes = NoOutput

C5_Witness ==
    /\ pc = "raised"
    /\ error.kind = "transport"
    /\ Len(route_fcs) = 2
    /\ Cardinality(Succeeded) = 2

C7_NoLostOrDuplicatedOutput ==
    (Collected \/ (pc = "draining" /\ Len(consumed) = total_jobs)) =>
        /\ \A i \in Chunks :
              Occurrences(route_fcs,
                          OutputRoutes(jobs[i].job_result.jobId, origin_ranges[i]))
                  = IF i \in Succeeded THEN 1 ELSE 0
        /\ Len(route_fcs) = Cardinality(Succeeded)

C7_Witness ==
    /\ pc = "done"
    /\ Len(consumed) = 3
    /\ consumed[1] = 3
    /\ consumed[1] \in Succeeded
    /\ consumed[2] \in SolveFailed
    /\ consumed[3] \in Succeeded
    /\ Len(route_fcs) = 2

\* C8: merging k >= 1 successful outputs with n_1..n_k rows yields one combined
\* output with n_1 + ... + n_k rows, in which every source row appears once and
\* unchanged, and whose schema is that of the first output in sorted order.
C8_MergeKeepsEveryRow ==
    (Collected /\ Succeeded # {}) =>
        /\ out_routes.exists
        /\ Len(out_routes.rows) = SumOver(Succeeded, [i \in Succeeded |-> Len(jobs[i].rows)])
        /\ \A i \in Succeeded : \A k \in 1..Len(jobs[i].rows) :
              Occurrences(out_routes.rows, jobs[i].rows[k]) = 1
        /\ \E i \in Succeeded :
              /\ out_routes.template = PathOf(i)
              /\ \A l \in Succeeded \ {i} : PathLess(PathOf(i), PathOf(l))

C8_Witness ==
    /\ pc = "done"
    /\ Cardinality(Succeeded) = 2
    /\ \E i \in Succeeded : Len(jobs[i].rows) = 2
    /\ Len(out_routes.rows) = 3

\* C9: the row order of the combined output does not depend on the order in
\* which jobs complete: it is the rows of the successful outputs taken in the
\* sort order of their locations, whatever order the completions arrived in.
C9_MergeOrderIgnoresCompletionOrder ==
    (Collected /\ out_routes.exists) =>
        out_routes.rows = RowsInPathOrder(Succeeded)

C9_Witness ==
    /\ pc = "done"
    /\ out_routes.exists
    /\ \E k, l \in 1..Len(consumed) :
          /\ k < l
          /\ consumed[k] \in Succeeded
          /\ consumed[l] \in Succeeded
          /\ PathLess(PathOf(consumed[l]), PathOf(consumed[k]))

\* C10: the merger's sort by output location follows the chunk lower bound, so
\* the chunks are merged in ascending lower bound whatever job identifiers the
\* run assigns.
C10_MergeOrderFollowsLowerBound ==
    (Collected /\ out_routes.exists) =>
        \A k, l \in 1..Len(route_fcs) :
            k < l => route_fcs[k].lo < route_fcs[l].lo

\* C11: the merge is never incremental: the combined output holds nothing
\* before every submitted job has completed and its result has been drained
\* from the as_completed loop.
C11_MergeNeverIncremental ==
    out_routes # NoOutput =>
        /\ Len(submitted) = total_jobs
        /\ Finished = 1..Len(submitted)
        /\ Range(consumed) = 1..Len(submitted)
        /\ completed_jobs = Len(submitted)
        /\ pc \in {"cleanup", "done"}

C11_Witness ==
    /\ pc = "cleanup"
    /\ total_jobs = 3
    /\ Cardinality(Succeeded) = 2
    /\ Cardinality(SolveFailed) = 1
    /\ out_routes.exists
    /\ Len(out_routes.rows) = 2

\* C12: the dispatcher submits exactly one job per planned chunk, no chunk
\* twice and none skipped, in chunk order (ascending lower bound); nothing is
\* submitted before the dispatch.
C12_OneJobPerChunkInOrder ==
    IF Dispatched
    THEN /\ Len(submitted) = Len(origin_ranges)
         /\ \A k \in 1..Len(origin_ranges) :
               Occurrences(submitted, origin_ranges[k]) = 1
         /\ \A k \in 1..(Len(submitted) - 1) : submitted[k][1] < submitted[k + 1][1]
         /\ DOMAIN jobs = 1..Len(submitted)
    ELSE submitted = <<>>

C12_Witness ==
    /\ pc = "done"
    /\ submitted = <<<<1, 1>>, <<2, 2>>, <<3, 3>>>>
    /\ Finished = {1, 2, 3}

\* C13: at every moment at most max_processes jobs are executing; a job is
\* taken only by a worker that is free, the oldest queued one first, and a job
\* that is executing is run to its end (it is never set back or dropped).
C13_AtMostMaxProcessesRunning ==
    /\ Cardinality(Running) <= max_processes
    /\ [][/\ Cardinality(Running') <= max_processes'
          /\ \A i \in DOMAIN jobs :
                /\ (jobs[i].st = "running" /\ i \in DOMAIN jobs')
                      => jobs'[i].st \in {"running", "finished"}
                /\ (jobs[i].st = "pending" /\ i \in DOMAIN jobs'
                       /\ jobs'[i].st # "pending")
                      => /\ Cardinality(Running) < max_processes
                         /\ \A k \in Pending : i <= k]_vars

C13_Witness ==
    /\ pc = "draining"
    /\ max_processes = 2
    /\ Cardinality(Running) = 2
    /\ Pending # {}

\* C14: pre-flight validation runs exactly once and before any job is
\* submitted; when it raises, the exception reaches the caller, no job is
\* submitted or started, nothing is collected and nothing is merged.
C14_ValidationPrecedesDispatch ==
    /\ validations = (IF pc = "start" THEN 0 ELSE 1)
    /\ (submitted # <<>> \/ Pending # Chunks \/ Dispatched)
          => (validations = 1 /\ error.kind # "validation")
    /\ error.kind = "validation"
          => /\ pc = "raised"
             /\ submitted = <<>>
             /\ Pending = Chunks
             /\ consumed = <<>>
             /\ route_fcs = <<>>
             /\ out_routes = NoOutput
    /\ (pc = "raised" /\ ~Dispatched) => error.kind = "validation"

C14_Witness ==
    /\ pc = "raised"
    /\ error.kind = "validation"
    /\ validations = 1
    /\ total_jobs = 3

\* C15: once the pre-flight validation has returned or raised, at whichever
\* step it failed, no folder of its throwaway Route is left in the scratch
\* folder.  (No job has started yet, so any job folder is the throwaway's.)
C15_ThrowawayFolderRemoved ==
    (pc \in {"validated", "populated"} \/ error.kind = "validation") => job_folders = {}

C17_CleanupIdempotent ==
    [][(pc = "done" /\ ~scratch_exists)
          => UNCHANGED <<pc, total_rows, max_routes, max_processes, origin_ranges,
                         total_jobs, jobs, consumed, completed_jobs, route_fcs,
                         out_routes, job_folders, scratch_exists, error, warnings,
                         rt_inputs, validations, submitted, rt, call>>]_vars

C17_Witness ==
    /\ pc = "done"
    /\ cleanup_log = <<TRUE, FALSE>>
    /\ ~scratch_exists
    /\ error = NoError
    /\ out_routes.exists

\* C18: a failure to remove the scratch folder never fails the batch: no
\* exception comes out of the clean-up, solve_route_in_parallel returns
\* normally and the combined output is as the merge left it.
C18_CleanupFailureNeverFailsBatch ==
    /\ error.kind \in {"none", "validation", "transport"}
    /\ pc = "raised" => cleanup_log = <<>>
    /\ cleanup_log # <<>> =>
          /\ pc = "done"
          /\ error = NoError
          /\ warnings \subseteq {"All Route solves failed"}
          /\ out_routes = IF route_fcs # <<>>
                          THEN post_process_route_fcs(route_fcs)
                          ELSE NoOutput

C18_Witness ==
    /\ pc = "done"
    /\ cleanup_log = <<TRUE>>
    /\ scratch_exists
    /\ job_folders # {}
    /\ error = NoError
    /\ out_routes.exists
    /\ Len(out_routes.rows) >= 2

\* C19 as stated: rt_inputs, its transfer-field lists included, is read-only
\* from the moment _validate_route_settings has returned: it keeps the value
\* it had then.
C19_ReadOnlyAfterValidation ==
    (validations = 1 /\ error.kind # "validation") => rt_inputs = InitialInputs

\* C19, amended: the transfer-field lists are stored in rt_inputs once, after
\* the validation has returned and before the jobs are submitted; from the
\* submission on no step changes rt_inputs.
C19_ReadOnlyOnceSubmitted ==
    /\ (pc \in {"start", "validated"} \/ error.kind = "validation")
          => rt_inputs = InitialInputs
    /\ (pc = "populated" \/ Dispatched)
          => rt_inputs = [origin_transfer_fields |-> <<"Name", "Bearing">>,
                          destination_transfer_fields |-> <<"CurbApproach">>]

C19_Witness ==
    /\ pc = "done"
    /\ total_jobs = 3
    /\ rt_inputs.origin_transfer_fields = <<"Name", "Bearing">>
    /\ rt_inputs.destination_transfer_fields = <<"CurbApproach">>

\* C20: a job that meets an unexpected internal error during its run (while
\* selecting inputs, initializing the solver, inserting stops, solving or
\* exporting) returns a job result with solveSucceeded false and the error in
\* its messages: no exception leaves the worker from Route.solve, and the batch
\* is not aborted by one.
C20_InternalErrorReturnsFailedResult ==
    \A i \in DOMAIN jobs :
        /\ jobs[i].raised_in # "Route.solve"
        /\ (jobs[i].st = "finished" /\ jobs[i].raised_in # "Route.__init__")
              => (~jobs[i].raised /\ jobs[i].job_result.jobId # <<>>)

\* C21: a job whose folder cannot be made is not absorbed as a failed chunk:
\* the exception of os.mkdir leaves the worker, the batch never reaches the
\* merge or a normal return, and once the loop has met that job the call is
\* failing with its exception.
C21_MkdirFailureAbortsBatch ==
    \A i \in DOMAIN jobs :
        jobs[i].raised_in = "Route.__init__" =>
            /\ jobs[i].st = "finished"
            /\ jobs[i].raised
            /\ jobs[i].job_result = NoResult
            /\ pc \in {"draining", "aborting", "raised"}
            /\ out_routes = NoOutput
            /\ i \in Range(consumed) =>
                  /\ pc \in {"aborting", "raised"}
                  /\ error = [kind |-> "transport", chunk |-> i]
                  /\ consumed[Len(consumed)] = i

C21_Witness ==
    /\ pc = "raised"
    /\ total_jobs = 3
    /\ error = [kind |-> "transport", chunk |-> 2]
    /\ jobs[2].raised_in = "Route.__init__"
    /\ scratch_exists
    /\ 1 \in Succeeded
    /\ 3 \in Succeeded

\* C22: planning with max_chunk_size <= 0 fails with InvalidConfiguration and
\* with nothing else: no plan, no job submitted or started, no validation run,
\* no job folder made; a positive cap never fails that way.
C22_NonPositiveChunkSizeFails ==
    /\ (max_routes <= 0 /\ pc # "plan") =>
          /\ pc = "raised"
          /\ error = [kind |-> "InvalidConfiguration", chunk |-> 0]
          /\ origin_ranges = <<>>
          /\ total_jobs = 0
          /\ jobs = <<>>
          /\ submitted = <<>>
          /\ validations = 0
          /\ job_folders = {}
    /\ error.kind = "InvalidConfiguration" => max_routes <= 0

C22_Witness ==
    /\ pc = "raised"
    /\ max_routes = 0
    /\ total_rows = 208
    /\ error.kind = "InvalidConfiguration"

\* C25 as stated: in every run that dispatched its jobs, when the call has
\* ended every job has produced its result and every result was consumed
\* exactly once.
C25_EveryResultProducedAndConsumed ==
    (Dispatched /\ pc \in {"done", "raised"}) =>
        \A i \in Chunks :
            /\ jobs[i].st = "finished"
            /\ ~jobs[i].raised
            /\ jobs[i].job_result # NoResult
            /\ Occurrences(consumed, i) = 1

\* C25, amended: no job produces more than one result and no result is
\* consumed more than once, for every completion order; a job that raised
\* produced none.  In a run that ends without a fatal error every job produced
\* its result and each was consumed exactly once.  In a run that a raising job
\* aborts, that job is the last one consumed and the results the loop had not
\* met by then are never consumed.
C25_ResultsConsumedAtMostOnce ==
    /\ \A i \in DOMAIN jobs :
          /\ Occurrences(consumed, i) <= 1
          /\ jobs[i].raised => (jobs[i].st = "finished" /\ jobs[i].job_result = NoResult)
          /\ (jobs[i].st = "finished" /\ ~jobs[i].raised) => jobs[i].job_result # NoResult
    /\ Range(consumed) \subseteq Finished
    /\ completed_jobs = Len(consumed)
    /\ Collected =>
          /\ Len(consumed) = total_jobs
          /\ \A i \in Chunks :
                /\ jobs[i].st = "finished"
                /\ ~jobs[i].raised
                /\ Occurrences(consumed, i) = 1
    /\ pc \in {"aborting", "raised"} /\ Dispatched =>
          /\ jobs[consumed[Len(consumed)]].raised
          /\ \A k \in 1..(Len(consumed) - 1) : ~jobs[consumed[k]].raised

C25_Witness ==
    /\ pc = "raised"
    /\ total_jobs = 3
    /\ Finished = Chunks
    /\ consumed = <<3, 1>>
    /\ 3 \in Succeeded
    /\ 1 \in Crashed
    /\ 2 \in Succeeded

\* The chunk of the job holds no origin whose assigned destination is in the
\* destinations table.
NoDestinationPresent ==
    \A k \in rt.chunk[1]..rt.chunk[2] : rt.origins[k] \notin rt.destinations

\* C23: for a chunk in which the assigned destination of every origin is
\* absent from the destinations, the job inserts no stop, calls neither the
\* solve nor the export, raises nothing and ends with solveSucceeded false
\* and no output location.
C23_NoDestinationNoSolve ==
    NoDestinationPresent =>
        /\ rt.stops = <<>>
        /\ rt.solve_calls = 0
        /\ rt.export_calls = 0
        /\ rt.step \in {"constructed", "selected", "initialized", "inserted", "returned"}
        /\ ~rt.job_result.solveSucceeded
        /\ rt.job_result.outputRoutes = NoPath

C23_Witness ==
    /\ rt.step = "returned"
    /\ rt.origins = <<"A", None>>
    /\ rt.chunk = <<1, 2>>
    /\ rt.destinations = {"B"}
    /\ rt.stops = <<>>
    /\ ~rt.job_result.solveSucceeded

\* C24: after initialize_rt_solver the four properties the tool controls hold
\* the caller's values whatever the static table holds, a table entry for one
\* of them is never applied (it is only logged as ignored), every other
\* property holds the table's value when the table has one that can be set and
\* the engine default otherwise, and the initialization never fails.
C24_ThreeLayerMerge ==
    /\ rt.step \in {"selected", "initialized"}
    /\ rt.step = "initialized" =>
          /\ \A p \in ToolProps :
                /\ rt.rt_solver[p] = "caller"
                /\ [warning |-> "failed", prop |-> p] \notin rt.logged
                /\ p \in rt.RT_PROPS <=> [warning |-> "ignored", prop |-> p] \in rt.logged
          /\ \A p \in SolverProps \ ToolProps :
                rt.rt_solver[p] = IF p \in rt.RT_PROPS \ rt.unsettable
                                  THEN "table" ELSE "default"

C24_Witness ==
    /\ rt.step = "initialized"
    /\ rt.RT_PROPS = SolverProps
    /\ rt.unsettable = {"travelMode", "searchTolerance"}
    /\ rt.rt_solver["travelMode"] = "caller"
    /\ rt.rt_solver["searchTolerance"] = "default"
    /\ rt.rt_solver["routeShapeType"] = "table"

\* Two strings differ at most in the case of their letters.
SameLetters(a, b) ==
    /\ Len(a) = Len(b)
    /\ \A k \in 1..Len(a) :
          \/ a[k] = b[k]
          \/ \E j \in DOMAIN UpperCase : {a[k], b[k]} = {UpperCase[j], LowerCase[j]}

\* C26: convert_time_units_str_to_enum maps Days, Hours, Minutes and Seconds,
\* in any letter case, to the member of TimeUnits of that name, and raises
\* ValueError "Invalid time units: <input>" for every other string.
C26_TimeUnitsByName ==
    (call.fn = "convert_time_units_str_to_enum" /\ call.st = "ended") =>
        IF \E n \in TIME_UNITS : SameLetters(call.arg, n)
        THEN \E n \in TIME_UNITS :
                /\ SameLetters(call.arg, n)
                /\ call.result.raised = "none"
                /\ call.result.value = [enum |-> "TimeUnits", member |-> n]
        ELSE /\ call.result.raised = "ValueError"
             /\ call.result.value = <<"Invalid time units: ">> \o call.arg

C26_Witness ==
    /\ call.fn = "convert_time_units_str_to_enum"
    /\ call.st = "ended"
    /\ call.arg = <<"m", "I", "n", "U", "t", "E", "s">>
    /\ call.result.raised = "none"
    /\ call.result.value.member = <<"M", "i", "n", "u", "t", "e", "s">>

\* C27 as stated: convert_distance_units_str_to_enum maps the names of
\* DISTANCE_UNITS, in any letter case, to the member of that name and raises
\* ValueError "Invalid distance units: <input>" for every other string.
C27_DistanceUnitsByName ==
    (call.fn = "convert_distance_units_str_to_enum" /\ call.st = "ended") =>
        IF \E n \in DISTANCE_UNITS : SameLetters(call.arg, n)
        THEN \E n \in DISTANCE_UNITS :
                /\ SameLetters(call.arg, n)
                /\ call.result.raised = "none"
                /\ call.result.value = [enum |-> "DistanceUnits", member |-> n]
        ELSE /\ call.result.raised = "ValueError"
             /\ call.result.value = <<"Invalid distance units: ">> \o call.arg

\* C27, amended: besides the names of DISTANCE_UNITS the function takes
\* "nautical miles", written with one space and in any letter case, for
\* NauticalMiles; every other string raises ValueError
\* "Invalid distance units: <input>".
C27_DistanceUnitsByNameOrSpacedNautical ==
    (call.fn = "convert_distance_units_str_to_enum" /\ call.st = "ended") =>
        IF \E n \in DISTANCE_UNITS : SameLetters(call.arg, n)
        THEN \E n \in DISTANCE_UNITS :
                /\ SameLetters(call.arg, n)
                /\ call.result.raised = "none"
                /\ call.result.value = [enum |-> "DistanceUnits", member |-> n]
        ELSE IF SameLetters(call.arg, <<"n", "a", "u", "t", "i", "c", "a", "l", " ", "m", "i", "l", "e", "s">>)
        THEN /\ call.result.raised = "none"
             /\ call.result.value =
                    [enum |-> "DistanceUnits", member |-> <<"N", "a", "u", "t", "i", "c", "a", "l", "M", "i", "l", "e", "s">>]
        ELSE /\ call.result.raised = "ValueError"
             /\ call.result.value = <<"Invalid distance units: ">> \o call.arg

C27_Witness ==
    /\ call.fn = "convert_distance_units_str_to_enum"
    /\ call.st = "ended"
    /\ call.arg = <<"N", "a", "u", "t", "i", "c", "a", "l", " ", "M", "i", "l", "e", "s">>
    /\ call.result.raised = "none"
    /\ call.result.value.member = <<"N", "a", "u", "t", "i", "c", "a", "l", "M", "i", "l", "e", "s">>

\* C28: validate_input_feature_class raises ValueError "Input dataset <x> does
\* not exist." for a dataset that does not exist, whatever its row count would
\* be, ValueError "Input dataset <x> has no rows." for one that exists with no
\* rows, and returns for one with at least one row.
C28_ValidateInputFeatureClass ==
    (call.fn = "validate_input_feature_class" /\ call.st = "ended") =>
        /\ ~call.arg.exists =>
              /\ call.result.raised = "ValueError"
              /\ call.result.value = <<"Input dataset ", call.arg.name, " does not exist.">>
        /\ (call.arg.exists /\ call.arg.rows = 0) =>
              /\ call.result.raised = "ValueError"
              /\ call.result.value = <<"Input dataset ", call.arg.name, " has no rows.">>
        /\ (call.arg.exists /\ call.arg.rows >= 1) =>
              /\ call.result.raised = "none"
              /\ call.result.gp_messages = <<>>

C28_Witness ==
    /\ call.fn = "validate_input_feature_class"
    /\ call.st = "ended"
    /\ ~call.arg.exists
    /\ call.arg.rows = 0
    /\ call.result.value = <<"Input dataset ", "Origins", " does not exist.">>

\* Where the splitter stands in the message of the call.
SplitterAt ==
    {k \in 1..(Len(call.arg) - 2) : SubSeq(call.arg, k, k + 2) = MSG_STR_SPLITTER}

\* The message of the call holds one splitter and no second one after it.
OneSplitter ==
    /\ SplitterAt # {}
    /\ \A k, l \in SplitterAt : l < k + 3

\* C29: parse_std_and_write_to_gp_ui never raises and writes one message: for
\* "LEVEL | text" with one splitter the text alone, as an error when LEVEL is
\* ERROR or CRITICAL, as a warning when it is WARNING, as information
\* otherwise; for a message with no splitter or more than one the whole
\* message as information.
C29_ParseStdNeverRaises ==
    (call.fn = "parse_std_and_write_to_gp_ui" /\ call.st = "ended") =>
        /\ call.result.raised = "none"
        /\ Len(call.result.gp_messages) = 1
        /\ IF OneSplitter
           THEN \E k \in SplitterAt :
                   /\ \A l \in SplitterAt : k <= l
                   /\ call.result.gp_messages[1].text = SubSeq(call.arg, k + 3, Len(call.arg))
                   /\ call.result.gp_messages[1].severity =
                          IF SubSeq(call.arg, 1, k - 1) \in {<<"ERROR">>, <<"CRITICAL">>}
                          THEN "error"
                          ELSE IF SubSeq(call.arg, 1, k - 1) = <<"WARNING">>
                          THEN "warning"
                          ELSE "info"
           ELSE /\ call.result.gp_messages[1].text = call.arg
                /\ call.result.gp_messages[1].severity = "info"

C29_Witness ==
    /\ call.fn = "parse_std_and_write_to_gp_ui"
    /\ call.st = "ended"
    /\ call.arg = <<"ERROR", " ", "|", " ", "x", " ", "|", " ", "x">>
    /\ call.result.raised = "none"
    /\ call.result.gp_messages = <<[severity |-> "info", text |-> call.arg]>>

\* C30: is_nds_service returns True exactly for a string that starts with
\* "http", and False for every other string and for every value that is not
\* a string.
C30_ServiceIffHttpString ==
    (call.fn = "is_nds_service" /\ call.st = "ended") =>
        /\ call.result.raised = "none"
        /\ call.result.value =
              (/\ call.arg.type = "str"
               /\ Len(call.arg.value) >= 4
               /\ call.arg.value[1] = "h"
               /\ call.arg.value[2] = "t"
               /\ call.arg.value[3] = "t"
               /\ call.arg.value[4] = "p")

C30_Witness ==
    /\ call.fn = "is_nds_service"
    /\ call.st = "ended"
    /\ call.arg = [type |-> "str", value |-> <<"h", "t", "t", "p", "s">>]
    /\ call.result.value = TRUE

\* C31: when the engine reports that the solve did not succeed, the job keeps
\* the solver messages in its result, returns with solveSucceeded false and
\* exports nothing; the export runs only after a solve that succeeded, and
\* nothing is raised.
C31_FailedSolveReturnsWithoutExport ==
    /\ rt.step # "raised"
    /\ rt.export_calls <= rt.solve_calls
    /\ rt.solve_calls >= 1 => rt.job_result.solveMessages # ""
    /\ rt.job_result.solveMessages = "solve failed" =>
          /\ rt.step = "returned"
          /\ rt.solve_calls = 1
          /\ ~rt.job_result.solveSucceeded
          /\ rt.export_calls = 0
          /\ rt.job_result.outputRoutes = NoPath
    /\ rt.export_calls >= 1 =>
          /\ rt.job_result.solveMessages = "solve succeeded"
          /\ rt.job_result.solveSucceeded

C31_Witness ==
    /\ rt.step = "returned"
    /\ Len(rt.stops) = 4
    /\ rt.solve_calls = 1
    /\ rt.job_result.solveMessages = "solve failed"
    /\ ~rt.job_result.solveSucceeded
    /\ rt.export_calls = 0

\* The jobs whose Route was constructed and whose result record is at hand.
Constructed == {i \in DOMAIN jobs : jobs[i].job_result.jobId # <<>>}

\* C32: in every state any two jobs of the batch have different job folders,
\* each of them a folder that exists in the scratch folder while the scratch
\* folder does, and different output locations; the output location of a job
\* is named after the bounds of its chunk inside its own folder.
C32_NoCollisionOfLocations ==
    /\ \A i, k \in Constructed :
          i # k =>
              /\ jobs[i].job_result.jobId # jobs[k].job_result.jobId
              /\ (i \in Succeeded /\ k \in Succeeded) => PathOf(i) # PathOf(k)
    /\ \A i \in Constructed :
          /\ scratch_exists => jobs[i].job_result.jobId \in job_folders
          /\ i \in Succeeded =>
                PathOf(i) = [job |-> jobs[i].job_result.jobId,
                             lo |-> origin_ranges[i][1], hi |-> origin_ranges[i][2]]
          /\ i \notin Succeeded => jobs[i].job_result.outputRoutes = NoPath

C32_Witness ==
    /\ pc = "draining"
    /\ total_jobs = 3
    /\ max_processes = 2
    /\ 1 \in Succeeded
    /\ Running = {2, 3}
    /\ Cardinality({jobs[i].job_result.jobId : i \in Chunks}) = 3

\* The origins of the chunk whose assigned destination is in the destinations
\* table.
Matched ==
    {k \in rt.chunk[1]..rt.chunk[2] : rt.origins[k] \in rt.destinations}

\* The places in the stops of the rows with a route name.
StopsNamed(name) == {a \in 1..Len(rt.stops) : rt.stops[a].RouteName = name}

\* C33: once the stops are inserted, each matched origin has exactly two
\* stops under one route name, its own row before the row of its destination;
\* the origin is stop 1 and the destination stop 2 in the forward direction,
\* the destination 1 and the origin 2 in the reverse direction, so every
\* route name carries the sequence numbers 1 and 2.
C33_TwoStopsPerMatchedOrigin ==
    rt.step \in {"inserted", "solved", "returned"} =>
        /\ \A k \in Matched :
              \E a, b \in 1..Len(rt.stops) :
                 /\ a < b
                 /\ rt.stops[a].OriginUniqueID = ToString(k)
                 /\ rt.stops[a].DestinationUniqueID = None
                 /\ rt.stops[b].OriginUniqueID = None
                 /\ rt.stops[b].DestinationUniqueID = rt.origins[k]
                 /\ rt.stops[a].RouteName = rt.stops[b].RouteName
                 /\ StopsNamed(rt.stops[a].RouteName) = {a, b}
                 /\ rt.stops[a].Sequence = (IF rt.reverse_direction THEN 2 ELSE 1)
                 /\ rt.stops[b].Sequence = (IF rt.reverse_direction THEN 1 ELSE 2)
        /\ \A a \in 1..Len(rt.stops) :
              {rt.stops[b].Sequence : b \in StopsNamed(rt.stops[a].RouteName)} = {1, 2}

C33_Witness ==
    /\ rt.step = "inserted"
    /\ rt.reverse_direction
    /\ rt.origins = <<"B", "B">>
    /\ rt.chunk = <<1, 2>>
    /\ Len(rt.stops) = 4
    /\ rt.stops[1].Sequence = 2
    /\ rt.stops[3].Sequence = 1
    /\ rt.stops[1].RouteName = "B - 1"

\* C34: an origin whose assigned destination is null or is not in the
\* destinations table is skipped without an error and has no stop, and every
\* other origin of the chunk is inserted: the stops hold one origin row for
\* each matched origin of the chunk and for no other, and as many route names
\* as there are matched origins.
C34_UnmatchedOriginsSkipped ==
    /\ rt.step # "raised"
    /\ rt.step \in {"inserted", "solved", "returned"} =>
          /\ {rt.stops[a].OriginUniqueID : a \in 1..Len(rt.stops)} \ {None}
                 = {ToString(k) : k \in Matched}
          /\ Cardinality({rt.stops[a].RouteName : a \in 1..Len(rt.stops)})
                 = Cardinality(Matched)
          /\ Len(rt.stops) = 2 * Cardinality(Matched)
          /\ \A a \in 1..Len(rt.stops) :
                rt.stops[a].DestinationUniqueID \in rt.destinations \cup {None}

C34_Witness ==
    /\ rt.step = "inserted"
    /\ rt.origins = <<"A", "B">>
    /\ rt.chunk = <<1, 2>>
    /\ rt.destinations = {"B"}
    /\ Len(rt.stops) = 2
    /\ rt.stops[1].OriginUniqueID = "2"

\* C35: the counter of completed jobs starts at 0, goes up by exactly one with
\* each completion the loop meets (succeeded, failed or crashed) and changes
\* at no other step, never exceeds the number of chunks, and equals it when
\* the loop has ended without a fatal error.
C35_CompletedJobsCounter ==
    /\ completed_jobs = Len(consumed)
    /\ completed_jobs <= total_jobs
    /\ ~Dispatched => completed_jobs = 0
    /\ Collected => completed_jobs = total_jobs
    /\ [][IF consumed' # consumed
          THEN completed_jobs' = completed_jobs + 1
          ELSE completed_jobs' = completed_jobs]_vars

C35_Witness ==
    /\ pc = "raised"
    /\ total_jobs = 3
    /\ completed_jobs = 3
    /\ consumed[1] \in Succeeded
    /\ consumed[2] \in SolveFailed
    /\ consumed[3] \in Crashed

\* C36: from the first completion whose result retrieval raises the
\* dispatcher collects nothing more: that completion is the last one consumed,
\* and no step changes route_fcs, completed_jobs or the completions consumed
\* again, whatever jobs finish afterwards.
C36_NothingCollectedAfterError ==
    /\ (Dispatched /\ pc \in {"aborting", "raised"}) =>
          /\ consumed # <<>>
          /\ consumed[Len(consumed)] = error.chunk
          /\ jobs[error.chunk].raised
          /\ Len(route_fcs) < Len(consumed)
    /\ [][(pc \in {"aborting", "raised"})
             => (UNCHANGED <<route_fcs, completed_jobs, consumed, error, out_routes>>)]_vars

C36_Witness ==
    /\ pc = "aborting"
    /\ total_jobs = 3
    /\ consumed = <<3, 1>>
    /\ 1 \in Crashed
    /\ route_fcs = <<PathOf(3)>>
    /\ 2 \in Succeeded
    /\ completed_jobs = 2

\* The call of solve_route_in_parallel has ended: it returned or raised.
Terminal == pc \in {"done", "raised"}

Started == {i \in DOMAIN jobs : jobs[i].st # "pending"}

\* C38: from the dispatch on rt_inputs is never changed, so every job of the
\* batch is constructed from the same inputs, with the same transfer-field
\* lists, whichever worker runs it and whenever it starts.
C38_EveryJobBuiltFromSameInputs ==
    /\ \A i, k \in Started : jobs[i].inputs = jobs[k].inputs
    /\ \A i \in Started :
          /\ jobs[i].inputs = rt_inputs
          /\ jobs[i].inputs.origin_transfer_fields = <<"Name", "Bearing">>
          /\ jobs[i].inputs.destination_transfer_fields = <<"CurbApproach">>

C38_Witness ==
    /\ pc = "aborting"
    /\ total_jobs = 3
    /\ max_processes = 1
    /\ consumed = <<1>>
    /\ Started = {1, 2, 3}
    /\ jobs[3].inputs = jobs[1].inputs
    /\ jobs[3].inputs.origin_transfer_fields # <<>>

\* C39: a batch planned with no chunk is not an error: the pre-flight
\* validation runs, no job is submitted or started, nothing is merged and no
\* combined output is made, the warning of a batch without output is logged,
\* the clean-up runs and the call returns; the call raises only if the
\* validation does.
C39_EmptyPlanIsNotAnError ==
    total_jobs = 0 =>
        /\ origin_ranges = <<>>
        /\ submitted = <<>>
        /\ jobs = <<>>
        /\ consumed = <<>>
        /\ route_fcs = <<>>
        /\ out_routes = NoOutput
        /\ pc # "aborting"
        /\ pc = "raised" => error.kind = "validation"
        /\ pc # "raised" => error = NoError
        /\ pc # "start" => validations = 1
        /\ pc \in {"cleanup", "done"} => warnings = {"All Route solves failed"}
        /\ pc = "done" => Len(cleanup_log) = 1

C39_Witness ==
    /\ pc = "done"
    /\ total_rows = 0
    /\ total_jobs = 0
    /\ validations = 1
    /\ error = NoError
    /\ out_routes = NoOutput
    /\ cleanup_log = <<TRUE>>
    /\ ~scratch_exists

\* The jobs whose result was returned to the dispatcher.
ResultReturned == {i \in Finished : ~jobs[i].raised}

\* C40: in every job result returned to the dispatcher solveSucceeded is true
\* exactly when the output location is set: a result that succeeded names the
\* output its job exported, with rows in it, a result that failed has no
\* output location, and route_fcs never holds an empty location or one that
\* no consumed job exported.
C40_SucceededIffOutputSet ==
    /\ \A i \in ResultReturned :
          /\ jobs[i].job_result.solveSucceeded <=> jobs[i].job_result.outputRoutes # NoPath
          /\ jobs[i].job_result.solveSucceeded =>
                /\ jobs[i].job_result.outputRoutes.job = jobs[i].job_result.jobId
                /\ jobs[i].job_result.outputRoutes.lo = submitted[i][1]
                /\ jobs[i].job_result.outputRoutes.hi = submitted[i][2]
                /\ jobs[i].rows # <<>>
          /\ ~jobs[i].job_result.solveSucceeded => jobs[i].rows = <<>>
    /\ (pc \in {"draining", "aborting"} \/ (pc = "raised" /\ Dispatched)) =>
          \A k \in 1..Len(route_fcs) :
              /\ route_fcs[k] # NoPath
              /\ \E i \in Range(consumed) \cap ResultReturned :
                    /\ jobs[i].job_result.solveSucceeded
                    /\ route_fcs[k] = jobs[i].job_result.outputRoutes

C40_Witness ==
    /\ pc = "draining"
    /\ total_jobs = 3
    /\ Len(consumed) = 3
    /\ Cardinality(Succeeded) = 1
    /\ Cardinality(SolveFailed) = 2
    /\ Len(route_fcs) = 1
    /\ route_fcs[1] # NoPath

====
